---- MODULE Spec2Model ----
(***************************************************************************)
(* A model of the three report scripts of the repository:                  *)
(*   TaskC/task_c.py  the reservation report (pipe-delimited text),        *)
(*   TaskD/task_d.py  the electricity report of one week (console),        *)
(*   TaskE/task_e.py  the electricity batch driver (summary.txt).          *)
(* Text is modelled as a sequence of one-character strings, Python's       *)
(* float as an IEEE-754 binary64 value computed with exact integer         *)
(* arithmetic on multi-limb naturals (round to nearest, ties to even).     *)
(***************************************************************************)
EXTENDS Integers, Sequences, FiniteSets, TLC

(***************************************************************************)
(* Multi-limb naturals: little-endian sequences of limbs in base 2^15,     *)
(* without leading (most significant) zero limbs; zero is << >>.           *)
(* They carry the 53-bit significands of binary64, which do not fit the    *)
(* model checker's 32-bit integers.                                        *)
(***************************************************************************)
LimbBase == 2^15

RECURSIVE Pow2(_)
Pow2(k) == IF k = 0 THEN 1 ELSE 2 * Pow2(k - 1)

RECURSIVE Pow10(_)
Pow10(k) == IF k = 0 THEN 1 ELSE 10 * Pow10(k - 1)

Limb(a, i) == IF i <= Len(a) THEN a[i] ELSE 0

RECURSIVE BNorm(_)
BNorm(a) ==
  IF a = << >> THEN << >>
  ELSE IF a[Len(a)] = 0 THEN BNorm(SubSeq(a, 1, Len(a) - 1))
  ELSE a

RECURSIVE BFromInt(_)
BFromInt(n) ==
  IF n = 0 THEN << >> ELSE <<n % LimbBase>> \o BFromInt(n \div LimbBase)

RECURSIVE BToInt(_)
BToInt(a) ==
  IF a = << >> THEN 0 ELSE a[1] + LimbBase * BToInt(Tail(a))

RECURSIVE BAddC(_, _, _, _)
BAddC(a, b, i, c) ==
  IF i > Len(a) /\ i > Len(b)
  THEN (IF c = 0 THEN << >> ELSE <<c>>)
  ELSE LET s == Limb(a, i) + Limb(b, i) + c
       IN  <<s % LimbBase>> \o BAddC(a, b, i + 1, s \div LimbBase)

BAdd(a, b) == BAddC(a, b, 1, 0)

\* a - b for a >= b
RECURSIVE BSubC(_, _, _, _)
BSubC(a, b, i, c) ==
  IF i > Len(a) THEN << >>
  ELSE LET s == a[i] - Limb(b, i) - c
       IN  IF s < 0
           THEN <<s + LimbBase>> \o BSubC(a, b, i + 1, 1)
           ELSE <<s>> \o BSubC(a, b, i + 1, 0)

BSub(a, b) == BNorm(BSubC(a, b, 1, 0))

\* a * k for 0 <= k < 2^15
RECURSIVE BMulC(_, _, _, _)
BMulC(a, k, i, c) ==
  IF i > Len(a)
  THEN (IF c = 0 THEN << >> ELSE <<c>>)
  ELSE LET s == a[i] * k + c
       IN  <<s % LimbBase>> \o BMulC(a, k, i + 1, s \div LimbBase)

BMulSmall(a, k) == IF k = 0 THEN << >> ELSE BMulC(a, k, 1, 0)

\* quotient and remainder of a by d, for 0 < d <= 2^15: long division from
\* the most significant limb down, q the quotient limbs found so far
RECURSIVE BDivR(_, _, _, _, _)
BDivR(a, d, i, q, r) ==
  IF i = 0 THEN [q |-> q, r |-> r]
  ELSE BDivR(a, d, i - 1,
             IF q = << >> /\ (r * LimbBase + a[i]) \div d = 0 THEN << >>
             ELSE <<(r * LimbBase + a[i]) \div d>> \o q,
             (r * LimbBase + a[i]) % d)

BDivSmall(a, d) == BDivR(a, d, Len(a), << >>, 0)

RECURSIVE BCmpAt(_, _, _)
BCmpAt(a, b, i) ==
  IF i = 0 THEN 0
  ELSE IF a[i] < b[i] THEN -1
  ELSE IF a[i] > b[i] THEN 1
  ELSE BCmpAt(a, b, i - 1)

\* -1, 0, 1 as a < b, a = b, a > b
BCmp(a, b) ==
  IF Len(a) < Len(b) THEN -1
  ELSE IF Len(a) > Len(b) THEN 1
  ELSE BCmpAt(a, b, Len(a))

RECURSIVE IntBitLen(_)
IntBitLen(n) == IF n = 0 THEN 0 ELSE 1 + IntBitLen(n \div 2)

LimbBits == IntBitLen(LimbBase) - 1

BBitLen(a) ==
  IF a = << >> THEN 0
  ELSE (Len(a) - 1) * LimbBits + IntBitLen(a[Len(a)])

BIsOdd(a) == a # << >> /\ a[1] % 2 = 1

\* a * 2^k
BShl(a, k) ==
  IF a = << >> THEN << >>
  ELSE [i \in 1..(k \div LimbBits) |-> 0] \o BMulSmall(a, Pow2(k % LimbBits))

\* floor(a / 2^k), and whether a nonzero bit was shifted out: the whole
\* limbs are dropped, x is the rest divided by the remaining power of two
ShiftedOut(a, w, x) ==
  [q |-> x.q,
   sticky |-> x.r # 0 \/ \E i \in 1..Len(a) : i <= w /\ a[i] # 0]

BShr(a, k) ==
  ShiftedOut(a, k \div LimbBits,
             BDivSmall(SubSeq(a, (k \div LimbBits) + 1, Len(a)),
                       Pow2(k % LimbBits)))

\* q, or q + 1 when the half bit is set and the rest or q's parity rounds up
RoundEven(q, half, sticky) ==
  IF half /\ (sticky \/ BIsOdd(q)) THEN BAdd(q, <<1>>) ELSE q

\* t holds a / 2^(s-1): its last bit is the half bit
RoundHalf(t, sticky) ==
  RoundEven(BShr(t.q, 1).q, BIsOdd(t.q), t.sticky \/ sticky)

\* a / 2^s rounded to the nearest integer, ties to even; sticky says that
\* a itself is the floor of a value with a nonzero fraction
BRoundShift(a, s, sticky) ==
  IF s = 0 THEN a ELSE RoundHalf(BShr(a, s - 1), sticky)

RECURSIVE BMulAt(_, _, _)
BMulAt(a, b, i) ==
  IF i > Len(b) THEN << >>
  ELSE BAdd([j \in 1..(i - 1) |-> 0] \o BMulSmall(a, b[i]), BMulAt(a, b, i + 1))

\* a * b
BMul(a, b) == BNorm(BMulAt(a, b, 1))

(***************************************************************************)
(* binary64.  A float is [neg, m, e] with value (-1)^neg * m * 2^e, where  *)
(* m is zero or has exactly 53 bits, so that equal values are equal        *)
(* records.  The exponent is unbounded: the values of the model stay far   *)
(* from the overflow and the subnormal range.                              *)
(***************************************************************************)
FZero == [neg |-> FALSE, m |-> << >>, e |-> 0]

\* a rounded significand r of 53 or (after a carry) 54 bits, at exponent E
FPack(neg, r, E) ==
  IF BBitLen(r) = 54
  THEN [neg |-> neg, m |-> BShr(r, 1).q, e |-> E + 1]
  ELSE [neg |-> neg, m |-> r, e |-> E]

\* M of L bits at exponent E
FRoundL(neg, M, E, sticky, L) ==
  IF M = << >> THEN FZero
  ELSE IF L <= 53 THEN [neg |-> neg, m |-> BShl(M, 53 - L), e |-> E - (53 - L)]
  ELSE FPack(neg, BRoundShift(M, L - 53, sticky), E + (L - 53))

\* the float nearest to M * 2^E (M a natural; sticky: M is the floor of a
\* value with a nonzero fraction, and then M has more than 53 bits)
FRound(neg, M, E, sticky) == FRoundL(neg, M, E, sticky, BBitLen(M))

\* float(n) for an int n
FFromInt(n) ==
  FRound(n < 0, BFromInt(IF n < 0 THEN -n ELSE n), 0, FALSE)

\* x + y for nonzero x = +-X * 2^e0 and y = +-Y * 2^e0, c comparing X and Y
FAddAligned(x, y, e0, X, Y, c) ==
  FRound(IF x.neg = y.neg \/ c > 0 THEN x.neg ELSE c < 0 /\ y.neg,
         IF x.neg = y.neg THEN BAdd(X, Y)
         ELSE IF c >= 0 THEN BSub(X, Y) ELSE BSub(Y, X),
         e0, FALSE)

FAddAt(x, y, e0) ==
  FAddAligned(x, y, e0, BShl(x.m, x.e - e0), BShl(y.m, y.e - e0),
              BCmp(BShl(x.m, x.e - e0), BShl(y.m, y.e - e0)))

\* x + y
FAdd(x, y) ==
  IF x.m = << >> THEN (IF y.m = << >> THEN [y EXCEPT !.neg = x.neg /\ y.neg] ELSE y)
  ELSE IF y.m = << >> THEN x
  ELSE FAddAt(x, y, IF x.e < y.e THEN x.e ELSE y.e)

\* x * y
FMul(x, y) ==
  IF x.m = << >> \/ y.m = << >> THEN [FZero EXCEPT !.neg = (x.neg # y.neg)]
  ELSE FRound(x.neg # y.neg, BMul(x.m, y.m), x.e + y.e, FALSE)

FQuotient(neg, x, E) == FRound(neg, x.q, E, x.r # 0)

\* The float nearest to n / d, for an int n and 0 < d < 2^15: the quotient
\* float(n) / float(d) of two exactly representable operands, and the value
\* of a decimal literal with digits n and scale d.
FDivInt(n, d) ==
  FQuotient(n < 0,
            BDivSmall(BShl(BFromInt(IF n < 0 THEN -n ELSE n), 5 * LimbBits), d),
            -(5 * LimbBits))

\* |x| * k rounded to the nearest integer, ties to even (exact arithmetic),
\* for 0 < k < 2^15
FScaledRound(x, k) ==
  IF x.e >= 0 THEN BShl(BMulSmall(x.m, k), x.e)
  ELSE BRoundShift(BMulSmall(x.m, k), -x.e, FALSE)

(***************************************************************************)
(* Text: a str is a sequence of one-character strings.                     *)
(***************************************************************************)
Digits == {"0", "1", "2", "3", "4", "5", "6", "7", "8", "9"}

DigitSeq == <<"0", "1", "2", "3", "4", "5", "6", "7", "8", "9">>

DigitVal(c) == CHOOSE n \in 0..9 : DigitSeq[n + 1] = c

DigitChar(n) == DigitSeq[n + 1]

Whitespace == {" ", "\n", "\t", "\r"}

IsDigits(s) == \A i \in 1..Len(s) : s[i] \in Digits

RECURSIVE LStrip(_)
LStrip(s) ==
  IF s # << >> /\ s[1] \in Whitespace THEN LStrip(Tail(s)) ELSE s

RECURSIVE RStrip(_)
RStrip(s) ==
  IF s # << >> /\ s[Len(s)] \in Whitespace
  THEN RStrip(SubSeq(s, 1, Len(s) - 1)) ELSE s

\* str.strip()
Strip(s) == RStrip(LStrip(s))

\* str.split(sep) for a one-character separator
RECURSIVE SplitAt(_, _, _, _)
SplitAt(s, sep, i, cur) ==
  IF i > Len(s) THEN <<cur>>
  ELSE IF s[i] = sep THEN <<cur>> \o SplitAt(s, sep, i + 1, << >>)
  ELSE SplitAt(s, sep, i + 1, Append(cur, s[i]))

Split(s, sep) == SplitAt(s, sep, 1, << >>)

\* sep.join(parts), sep a str
RECURSIVE Join(_, _)
Join(parts, sep) ==
  IF parts = << >> THEN << >>
  ELSE IF Len(parts) = 1 THEN parts[1]
  ELSE parts[1] \o sep \o Join(Tail(parts), sep)

\* str.replace(a, b) for one-character a and b
Replace(s, a, b) == [i \in 1..Len(s) |-> IF s[i] = a THEN b ELSE s[i]]

\* the value of a run of decimal digits
RECURSIVE DigitsVal(_)
DigitsVal(s) ==
  IF s = << >> THEN 0
  ELSE 10 * DigitsVal(SubSeq(s, 1, Len(s) - 1)) + DigitVal(s[Len(s)])

\* the decimal digits of a natural number
RECURSIVE NatStr(_)
NatStr(n) ==
  IF n < 10 THEN <<DigitChar(n)>>
  ELSE Append(NatStr(n \div 10), DigitChar(n % 10))

\* str(n) for an int n
IntStr(n) == IF n < 0 THEN <<"-">> \o NatStr(-n) ELSE NatStr(n)

\* n in decimal, left-padded with zeros to w digits (strftime %m, %d, %H, ...)
RECURSIVE Pad(_, _)
Pad(s, w) == IF Len(s) >= w THEN s ELSE Pad(<<"0">> \o s, w)

\* the decimal digits of a multi-limb natural
RECURSIVE BStr(_)
RECURSIVE BStrOf(_)
BStr(a) == BStrOf(BDivSmall(a, 10))

\* x: the quotient and remainder by ten
BStrOf(x) ==
  IF x.q = << >> THEN <<DigitChar(x.r)>>
  ELSE Append(BStr(x.q), DigitChar(x.r))

\* digits with single underscores between them (Python numeric literals)
IsDigitRun(s) ==
  /\ s # << >>
  /\ \A i \in 1..Len(s) : s[i] \in Digits \cup {"_"}
  /\ s[1] \in Digits /\ s[Len(s)] \in Digits
  /\ \A i \in 1..(Len(s) - 1) : ~(s[i] = "_" /\ s[i + 1] = "_")

DropUnderscores(s) == SelectSeq(s, LAMBDA c : c # "_")

(***************************************************************************)
(* Results of a conversion: a value, or the exception Python raises.  An   *)
(* exception carries its type, its message template and the text the       *)
(* message quotes (NoText when it quotes none).                            *)
(***************************************************************************)
NoText == <<"<none>">>

Ok(v) == [ok |-> TRUE, val |-> v]

Raise(type, msg, text) ==
  [ok |-> FALSE, err |-> [type |-> type, msg |-> msg, text |-> text]]

\* a signed literal t: its sign and the text after it
SignOf(t) == t # << >> /\ t[1] = "-"

Unsigned(t) == IF t # << >> /\ t[1] \in {"+", "-"} THEN Tail(t) ELSE t

IntOf(s, t, body) ==
  IF IsDigitRun(body)
  THEN Ok(IF SignOf(t) THEN -DigitsVal(DropUnderscores(body))
          ELSE DigitsVal(DropUnderscores(body)))
  ELSE Raise("ValueError", "invalid literal for int() with base 10: %r", s)

IntOfStripped(s, t) == IntOf(s, t, Unsigned(t))

\* int(s)
IntParse(s) == IntOfStripped(s, Strip(s))

\* the float of the literal with integer digits ip and decimals fp
FloatOfDigits(neg, ip, fp) ==
  [FDivInt(DigitsVal(ip \o fp), Pow10(Len(fp))) EXCEPT !.neg = neg]

FloatOfParts(s, t, parts) ==
  IF /\ Len(parts) <= 2
     /\ parts[1] # << >> \/ parts[Len(parts)] # << >>
     /\ \A i \in 1..Len(parts) : parts[i] = << >> \/ IsDigitRun(parts[i])
  THEN Ok(FloatOfDigits(SignOf(t), DropUnderscores(parts[1]),
                        IF Len(parts) = 2 THEN DropUnderscores(parts[2])
                        ELSE << >>))
  ELSE Raise("ValueError", "could not convert string to float: %r", s)

FloatOfStripped(s, t) == FloatOfParts(s, t, Split(Unsigned(t), "."))

\* float(s) for decimal literals without exponent; the texts of the model
\* spell no exponent, infinity or nan, and have at most 4 decimals
FloatParse(s) == FloatOfStripped(s, Strip(s))

\* the digits p of a scaled integer, padded to more than k digits, with the
\* decimal point before the last k
PointAt(p, k) ==
  SubSeq(p, 1, Len(p) - k) \o <<".">> \o SubSeq(p, Len(p) - k + 1, Len(p))

\* a nonnegative decimal with k decimals from its scaled integer n
Decimal(n, k) == PointAt(Pad(BStr(n), k + 1), k)

\* f"{x:.2f}": the exact value rounded to 2 decimals, ties to even
FormatF2(x) ==
  (IF x.neg THEN <<"-">> ELSE << >>) \o Decimal(FScaledRound(x, 100), 2)

(***************************************************************************)
(* Calendar dates and times of day (datetime.date, .time, .datetime).      *)
(***************************************************************************)
IsLeap(y) == (y % 4 = 0 /\ y % 100 # 0) \/ y % 400 = 0

DaysInMonth(y, m) ==
  IF m = 2 THEN (IF IsLeap(y) THEN 29 ELSE 28)
  ELSE IF m \in {4, 6, 9, 11} THEN 30 ELSE 31

RECURSIVE DaysBeforeMonth(_, _)
DaysBeforeMonth(y, m) ==
  IF m = 1 THEN 0 ELSE DaysBeforeMonth(y, m - 1) + DaysInMonth(y, m - 1)

\* date.toordinal(): 1 for 0001-01-01
ToOrdinal(d) ==
  LET y == d.year - 1
  IN  y * 365 + (y \div 4) - (y \div 100) + (y \div 400)
      + DaysBeforeMonth(d.year, d.month) + d.day

\* date.weekday(): 0 for Monday
Weekday(d) == (ToOrdinal(d) + 6) % 7

\* the order of date values (d1 < d2)
DateLess(d1, d2) ==
  \/ d1.year < d2.year
  \/ d1.year = d2.year /\ d1.month < d2.month
  \/ d1.year = d2.year /\ d1.month = d2.month /\ d1.day < d2.day

\* the character of s at position p ("" past the end)
CharAt(s, p) == IF 1 <= p /\ p <= Len(s) THEN s[p] ELSE ""

\* whether the two characters of s from p are in A and in B
Two(s, p, A, B) == CharAt(s, p) \in A /\ CharAt(s, p + 1) \in B

\* the length of the run of whitespace of s from p
RECURSIVE SpaceRun(_, _)
SpaceRun(s, p) ==
  IF CharAt(s, p) \in Whitespace THEN 1 + SpaceRun(s, p + 1) ELSE 0

\* n, n-1, ..., 1
Downto(n) == [i \in 1..n |-> n + 1 - i]

If(b, len) == IF b THEN <<len>> ELSE << >>

\* the lengths, in the order the regular expression of _strptime tries them,
\* that format element el can match of s from position p
AltLens(el, s, p) ==
  CASE el = "%Y" ->
         If(p + 3 <= Len(s) /\ IsDigits(SubSeq(s, p, p + 3)), 4)
    [] el = "%m" ->
         If(Two(s, p, {"1"}, {"0", "1", "2"}) \/ Two(s, p, {"0"}, Digits \ {"0"}), 2)
         \o If(CharAt(s, p) \in Digits \ {"0"}, 1)
    [] el = "%d" ->
         If(\/ Two(s, p, {"3"}, {"0", "1"})
            \/ Two(s, p, {"1", "2"}, Digits)
            \/ Two(s, p, {"0"}, Digits \ {"0"}), 2)
         \o If(CharAt(s, p) \in Digits \ {"0"}, 1)
         \o If(Two(s, p, {" "}, Digits \ {"0"}), 2)
    [] el = "%H" ->
         If(Two(s, p, {"2"}, {"0", "1", "2", "3"}) \/ Two(s, p, {"0", "1"}, Digits), 2)
         \o If(CharAt(s, p) \in Digits, 1)
    [] el = "%M" ->
         If(Two(s, p, {"0", "1", "2", "3", "4", "5"}, Digits), 2)
         \o If(CharAt(s, p) \in Digits, 1)
    [] el = "%S" ->
         If(\/ Two(s, p, {"6"}, {"0", "1"})
            \/ Two(s, p, {"0", "1", "2", "3", "4", "5"}, Digits), 2)
         \o If(CharAt(s, p) \in Digits, 1)
    [] el = " " -> Downto(SpaceRun(s, p))
    [] OTHER -> If(CharAt(s, p) = el, 1)

\* the first match (with backtracking) of the format elements pat[i..] on
\* s from position p: where it ends and the text each element matched
RECURSIVE MatchFrom(_, _, _, _)
RECURSIVE TryLens(_, _, _, _, _, _)
RECURSIVE Matched(_, _, _, _, _, _, _)
MatchFrom(pat, i, s, p) ==
  IF i > Len(pat) THEN [ok |-> TRUE, end |-> p, caps |-> << >>]
  ELSE TryLens(pat, i, s, p, AltLens(pat[i], s, p), 1)

TryLens(pat, i, s, p, lens, j) ==
  IF j > Len(lens) THEN [ok |-> FALSE, end |-> p, caps |-> << >>]
  ELSE Matched(pat, i, s, p, lens, j, MatchFrom(pat, i + 1, s, p + lens[j]))

\* r: how the rest of the format matched after alternative j of element i
Matched(pat, i, s, p, lens, j, r) ==
  IF r.ok
  THEN [r EXCEPT !.caps = <<SubSeq(s, p, p + lens[j] - 1)>> \o r.caps]
  ELSE TryLens(pat, i, s, p, lens, j + 1)

\* the number el matched, or dflt when the format has no element el
Field(pat, caps, el, dflt) ==
  IF \E i \in 1..Len(pat) : pat[i] = el
  THEN DigitsVal(SelectSeq(caps[CHOOSE i \in 1..Len(pat) : pat[i] = el],
                           LAMBDA c : c \in Digits))
  ELSE dflt

\* datetime(year, month, day, hour, minute, second) of the parsed fields
MakeDatetime(dt) ==
  IF dt.year = 0
  THEN Raise("ValueError", "year 0 is out of range", NoText)
  ELSE IF dt.day > DaysInMonth(dt.year, dt.month)
  THEN Raise("ValueError", "day is out of range for month", NoText)
  ELSE IF dt.second > 59
  THEN Raise("ValueError", "second must be in 0..59", NoText)
  ELSE Ok(dt)

\* r: the match of the whole format on s
StrptimeOf(s, pat, r) ==
  IF ~r.ok
  THEN Raise("ValueError", "time data %r does not match format %r", s)
  ELSE IF r.end <= Len(s)
  THEN Raise("ValueError", "unconverted data remains: %s",
             SubSeq(s, r.end, Len(s)))
  ELSE MakeDatetime([year   |-> Field(pat, r.caps, "%Y", 1900),
                     month  |-> Field(pat, r.caps, "%m", 1),
                     day    |-> Field(pat, r.caps, "%d", 1),
                     hour   |-> Field(pat, r.caps, "%H", 0),
                     minute |-> Field(pat, r.caps, "%M", 0),
                     second |-> Field(pat, r.caps, "%S", 0)])

\* datetime.strptime(s, format), the format given by its elements
Strptime(s, pat) == StrptimeOf(s, pat, MatchFrom(pat, 1, s, 1))

\* datetime.date() and datetime.time()
DateOf(dt) == [year |-> dt.year, month |-> dt.month, day |-> dt.day]

TimeOf(dt) == [hour |-> dt.hour, minute |-> dt.minute, second |-> dt.second]

\* strftime of one format element (years of the model have 4 digits)
FormatEl(el, v) ==
  CASE el = "%Y" -> NatStr(v.year)
    [] el = "%m" -> Pad(NatStr(v.month), 2)
    [] el = "%d" -> Pad(NatStr(v.day), 2)
    [] el = "%H" -> Pad(NatStr(v.hour), 2)
    [] el = "%M" -> Pad(NatStr(v.minute), 2)
    [] el = "%S" -> Pad(NatStr(v.second), 2)
    [] OTHER -> <<el>>

\* v.strftime(format)
RECURSIVE Strftime(_, _)
Strftime(v, pat) ==
  IF pat = << >> THEN << >> ELSE FormatEl(pat[1], v) \o Strftime(v, Tail(pat))

(***************************************************************************)
(* TaskC/task_c.py: the reservation report.                                *)
(***************************************************************************)
VARIABLES
  c_file,        \* reservations.txt: its lines, each with its line end
  c_pc,          \* where main is: "fetch", a report, "done" or "failed"
  c_pos,         \* fetch_reservations: the next line of the file to read
  c_fetching,    \* fetch_reservations: its local list of converted records
  reservations,  \* main: the list fetch_reservations returned, or None
  c_err,         \* the exception that ended the run, or None
  c_out          \* standard output: the lines printed

cvars == <<c_file, c_pc, c_pos, c_fetching, reservations, c_err, c_out>>

\* convert_reservation_data applied to one line on its own
VARIABLES
  k_line,        \* the line, with its line end
  k_pc,          \* "convert" or "done"
  k_record       \* the result of the conversion, or None

kvars == <<k_line, k_pc, k_record>>

\* TaskD/task_d.py, and generate_table_text of TaskE on the same totals
VARIABLES
  w_file,        \* the week's CSV file: its records, the header first
  w_pc,          \* where main is: "read", "totals", "table", "text", ...
  data,          \* main: the rows read_data returned, or None
  daily,         \* main: the totals compute_daily_totals returned, or None
  w_out,         \* standard output: the text print_table printed, or None
  week_number,   \* generate_table_text: its week_number argument
  week_text,     \* generate_table_text: the text returned, or None
  w_err          \* the exception that ended the run, or None

wvars == <<w_file, w_pc, data, daily, w_out, week_number, week_text, w_err>>

\* TaskE/task_e.py: the batch driver
VARIABLES
  e_dir,         \* the working directory: its CSV files, by name
  summary,       \* summary.txt: its text, or None when there is no such file
  e_pc,          \* where main is: "glob", "loop", "write", "print", ...
  csv_files,     \* main: the sorted names of the week files, or None
  e_idx,         \* main: the position of the loop in csv_files
  all_text,      \* main: the table texts collected so far
  e_out,         \* standard output: the text printed
  e_err          \* the exception that ended the run, or None

evars == <<e_dir, summary, e_pc, csv_files, e_idx, all_text, e_out, e_err>>

vars == <<cvars, kvars, wvars, evars>>

\* Python's None: where a str or a list may stand, and where a record may
None == [i \in {0} |-> "None"]

Nothing == [none |-> TRUE]

DateFormat == <<"%Y", "-", "%m", "-", "%d">>

TimeFormat == <<"%H", ":", "%M">>

CreatedFormat ==
  <<"%Y", "-", "%m", "-", "%d", " ", "%H", ":", "%M", ":", "%S">>

\* the part of a parsed datetime that column k keeps
Keep(k, r) ==
  IF ~r.ok \/ k = 11 THEN r
  ELSE IF k = 5 THEN Ok(DateOf(r.val)) ELSE Ok(TimeOf(r.val))

\* the conversion of column k (1..11) of a reservation
Decode(k, f) ==
  CASE k \in {1, 7} -> IntParse(f)
    [] k \in {5, 6, 11} ->
         Keep(k, Strptime(f, CASE k = 5 -> DateFormat
                               [] k = 6 -> TimeFormat
                               [] k = 11 -> CreatedFormat))
    [] k = 8 -> FloatParse(f)
    [] k = 9 -> Ok(f = <<"T", "r", "u", "e">>)
    [] OTHER -> Ok(f)

\* the conversions of columns k..11 in order, up to the first that raises;
\* converted holds the values of the columns before k
RECURSIVE ConvertFrom(_, _, _)
RECURSIVE Converted(_, _, _, _)
ConvertFrom(fields, k, converted) ==
  IF k > 11 THEN Ok(converted)
  ELSE IF k > Len(fields)
  THEN Raise("IndexError", "list index out of range", NoText)
  ELSE Converted(fields, k, converted, Decode(k, fields[k]))

\* d: the conversion of column k
Converted(fields, k, converted, d) ==
  IF d.ok THEN ConvertFrom(fields, k + 1, Append(converted, d.val)) ELSE d

\* the conversion without the strip() of the last field
ConvertedUnstripped(reservation) == ConvertFrom(reservation, 1, << >>)

\* convert_reservation_data(reservation): the last field is stripped first
convert_reservation_data(reservation) ==
  ConvertFrom([reservation EXCEPT ![Len(reservation)] = Strip(@)], 1, << >>)

ShortDateFormat == <<"%d", ".", "%m", ".", "%Y">>

ShortTimeFormat == <<"%H", ".", "%M">>

\* Non-ASCII characters of the printed text are written as their escapes:
\* \u2265 (greater-or-equal), \u2192 (arrow), \u20ac (euro sign).

\* the lines confirmed_reservations prints
ConfirmedLine(r) ==
  <<"- ", r[2], ", ", r[10], ", ", Strftime(r[5], ShortDateFormat), " at ",
    Strftime(r[6], ShortTimeFormat)>>

RECURSIVE confirmed_reservations(_)
confirmed_reservations(rs) ==
  IF rs = << >> THEN << >>
  ELSE (IF rs[1][9] THEN <<ConfirmedLine(rs[1])>> ELSE << >>)
       \o confirmed_reservations(Tail(rs))

\* the lines long_reservations prints
LongLine(r) ==
  <<"- ", r[2], ", ", Strftime(r[5], ShortDateFormat), " at ",
    Strftime(r[6], ShortTimeFormat), ", duration ", IntStr(r[7]), " h, ", r[10]>>

RECURSIVE long_reservations(_)
long_reservations(rs) ==
  IF rs = << >> THEN << >>
  ELSE (IF rs[1][7] >= 3 THEN <<LongLine(rs[1])>> ELSE << >>)
       \o long_reservations(Tail(rs))

\* the lines confirmation_statuses prints
confirmation_statuses(rs) ==
  [i \in 1..Len(rs) |->
     <<rs[i][2], " \\u2192 ", IF rs[i][9] THEN "Confirmed" ELSE "Not Confirmed">>]

\* the lines confirmation_summary prints
SummaryLines(confirmed, not_confirmed) ==
  << <<"- Confirmed reservations: ", IntStr(confirmed), " pcs">>,
     <<"- Not confirmed reservations: ", IntStr(not_confirmed), " pcs">> >>

confirmation_summary(rs) ==
  SummaryLines(Cardinality({i \in 1..Len(rs) : rs[i][9]}),
               Len(rs) - Cardinality({i \in 1..Len(rs) : rs[i][9]}))

\* the sum over every reservation, confirmed or not
RECURSIVE RevenueOfAll(_, _)
RevenueOfAll(rs, acc) ==
  IF rs = << >> THEN acc
  ELSE RevenueOfAll(Tail(rs), FAdd(acc, FMul(rs[1][8], FFromInt(rs[1][7]))))

\* sum(r[7] * r[6] for r in rs if r[8]), from the int 0 of sum()
RECURSIVE RevenueSum(_, _)
RevenueSum(rs, acc) ==
  IF rs = << >> THEN acc
  ELSE RevenueSum(Tail(rs),
                  IF rs[1][9] THEN FAdd(acc, FMul(rs[1][8], FFromInt(rs[1][7])))
                  ELSE acc)

\* the line total_revenue prints
total_revenue(rs) ==
  << <<"Total revenue from confirmed reservations: ",
       Replace(FormatF2(RevenueSum(rs, FFromInt(0))), ".", ","),
       " \\u20ac">> >>

\* a line that does not convert is skipped and the loop goes on
FetchedOrSkipped(r) ==
  /\ c_fetching' = IF r.ok THEN Append(c_fetching, r.val) ELSE c_fetching
  /\ c_pos' = c_pos + 1
  /\ UNCHANGED <<c_pc, c_err>>

\* r: the conversion of the line read; an exception ends the run
Fetched(r) ==
  IF r.ok
  THEN /\ c_fetching' = Append(c_fetching, r.val)
       /\ c_pos' = c_pos + 1
       /\ UNCHANGED <<c_pc, c_err>>
  ELSE /\ c_pc' = "failed"
       /\ c_err' = r.err
       /\ UNCHANGED <<c_fetching, c_pos>>

\* fetch_reservations: one turn of the loop over the lines of the file
FetchLine ==
  /\ c_pc = "fetch" /\ c_pos <= Len(c_file)
  /\ Fetched(convert_reservation_data(Split(c_file[c_pos], "|")))
  /\ UNCHANGED <<c_file, reservations, c_out, kvars, wvars, evars>>

\* fetch_reservations returns its list to main
FetchReturn ==
  /\ c_pc = "fetch" /\ c_pos > Len(c_file)
  /\ reservations' = c_fetching
  /\ c_pc' = "confirmed"
  /\ UNCHANGED <<c_file, c_pos, c_fetching, c_err, c_out, kvars, wvars, evars>>

\* main: one numbered section, its heading and the report under it
Section(at, heading, lines, next) ==
  /\ c_pc = at
  /\ c_out' = c_out \o heading \o lines
  /\ c_pc' = next
  /\ UNCHANGED <<c_file, c_pos, c_fetching, reservations, c_err, kvars, wvars,
                 evars>>

PrintConfirmed ==
  Section("confirmed", << <<"1) Confirmed Reservations">> >>,
          confirmed_reservations(reservations), "long")

PrintLong ==
  Section("long", << <<"">>, <<"2) Long Reservations (\\u2265 3 h)">> >>,
          long_reservations(reservations), "statuses")

PrintStatuses ==
  Section("statuses", << <<"">>, <<"3) Reservation Confirmation Status">> >>,
          confirmation_statuses(reservations), "summary")

PrintSummary ==
  Section("summary", << <<"">>, <<"4) Confirmation Summary">> >>,
          confirmation_summary(reservations), "revenue")

PrintRevenue ==
  Section("revenue",
          << <<"">>, <<"5) Total Revenue from Confirmed Reservations">> >>,
          total_revenue(reservations), "done")

(***************************************************************************)
(* The lines reservations.txt is drawn from: four well-formed ones, and    *)
(* the first with one column malformed, one line per decoded column.       *)
(***************************************************************************)
LineMoomin ==
  <<"2", "0", "1", "|", "M", "o", "o", "m", "i", "n", "|", "m", "@", "w",
    ".", "o", "r", "g", "|", "0", "5", "0", "9", "|", "2", "0", "2", "5",
    "-", "1", "1", "-", "1", "2", "|", "0", "9", ":", "0", "0", "|", "2",
    "|", "1", "8", ".", "5", "0", "|", "T", "r", "u", "e", "|", "F", "o",
    "r", "e", "s", "t", " ", "1", "|", "2", "0", "2", "5", "-", "0", "8",
    "-", "1", "2", " ", "1", "4", ":", "3", "3", ":", "2", "0", "\n">>

LineSnork ==
  <<"2", "0", "2", "|", "S", "n", "o", "r", "k", "|", "s", "@", "w", ".",
    "o", "r", "g", "|", "0", "4", "0", "1", "|", "2", "0", "2", "5", "-",
    "1", "1", "-", "1", "3", "|", "1", "4", ":", "3", "0", "|", "5", "|",
    "1", "0", "0", "|", "F", "a", "l", "s", "e", "|", "S", "a", "u", "n",
    "a", "|", "2", "0", "2", "5", "-", "0", "8", "-", "1", "3", " ", "0",
    "9", ":", "0", "5", ":", "0", "0", "\n">>

LineMymble ==
  <<"2", "0", "3", "|", "M", "y", "m", "b", "l", "e", "|", "y", "@", "w",
    ".", "o", "r", "g", "|", "0", "4", "0", "2", "|", "2", "0", "2", "5",
    "-", "1", "2", "-", "0", "1", "|", "1", "8", ":", "1", "5", "|", "3",
    "|", "0", ".", "1", "0", "|", "T", "r", "u", "e", "|", "F", "o", "r",
    "e", "s", "t", " ", "2", "|", "2", "0", "2", "5", "-", "0", "9", "-",
    "0", "1", " ", "0", "8", ":", "0", "0", ":", "0", "1", "\n">>

LineSniff ==
  <<"2", "0", "4", "|", "S", "n", "i", "f", "f", "|", "f", "@", "w", ".",
    "o", "r", "g", "|", "0", "4", "0", "3", "|", "2", "0", "2", "6", "-",
    "0", "1", "-", "0", "5", "|", "0", "7", ":", "4", "5", "|", "7", "|",
    "1", "9", ".", "9", "9", "|", "T", "r", "u", "e", "|", "P", "i", "e",
    "r", "|", "2", "0", "2", "5", "-", "1", "0", "-", "3", "1", " ", "2",
    "3", ":", "5", "9", ":", "5", "9", "\n">>

LineBadId ==
  <<"x", "|", "M", "o", "o", "m", "i", "n", "|", "m", "@", "w", ".", "o",
    "r", "g", "|", "0", "5", "0", "9", "|", "2", "0", "2", "5", "-", "1",
    "1", "-", "1", "2", "|", "0", "9", ":", "0", "0", "|", "2", "|", "1",
    "8", ".", "5", "0", "|", "T", "r", "u", "e", "|", "F", "o", "r", "e",
    "s", "t", " ", "1", "|", "2", "0", "2", "5", "-", "0", "8", "-", "1",
    "2", " ", "1", "4", ":", "3", "3", ":", "2", "0", "\n">>

LineBadDate ==
  <<"2", "0", "1", "|", "M", "o", "o", "m", "i", "n", "|", "m", "@", "w",
    ".", "o", "r", "g", "|", "0", "5", "0", "9", "|", "2", "0", "2", "5",
    "-", "0", "2", "-", "3", "0", "|", "0", "9", ":", "0", "0", "|", "2",
    "|", "1", "8", ".", "5", "0", "|", "T", "r", "u", "e", "|", "F", "o",
    "r", "e", "s", "t", " ", "1", "|", "2", "0", "2", "5", "-", "0", "8",
    "-", "1", "2", " ", "1", "4", ":", "3", "3", ":", "2", "0", "\n">>

LineBadTime ==
  <<"2", "0", "1", "|", "M", "o", "o", "m", "i", "n", "|", "m", "@", "w",
    ".", "o", "r", "g", "|", "0", "5", "0", "9", "|", "2", "0", "2", "5",
    "-", "1", "1", "-", "1", "2", "|", "0", "9", ":", "0", "0", ":", "0",
    "0", "|", "2", "|", "1", "8", ".", "5", "0", "|", "T", "r", "u", "e",
    "|", "F", "o", "r", "e", "s", "t", " ", "1", "|", "2", "0", "2", "5",
    "-", "0", "8", "-", "1", "2", " ", "1", "4", ":", "3", "3", ":", "2",
    "0", "\n">>

LineBadDuration ==
  <<"2", "0", "1", "|", "M", "o", "o", "m", "i", "n", "|", "m", "@", "w",
    ".", "o", "r", "g", "|", "0", "5", "0", "9", "|", "2", "0", "2", "5",
    "-", "1", "1", "-", "1", "2", "|", "0", "9", ":", "0", "0", "|", "x",
    "|", "1", "8", ".", "5", "0", "|", "T", "r", "u", "e", "|", "F", "o",
    "r", "e", "s", "t", " ", "1", "|", "2", "0", "2", "5", "-", "0", "8",
    "-", "1", "2", " ", "1", "4", ":", "3", "3", ":", "2", "0", "\n">>

LineBadPrice ==
  <<"2", "0", "1", "|", "M", "o", "o", "m", "i", "n", "|", "m", "@", "w",
    ".", "o", "r", "g", "|", "0", "5", "0", "9", "|", "2", "0", "2", "5",
    "-", "1", "1", "-", "1", "2", "|", "0", "9", ":", "0", "0", "|", "2",
    "|", "1", "8", ",", "5", "0", "|", "T", "r", "u", "e", "|", "F", "o",
    "r", "e", "s", "t", " ", "1", "|", "2", "0", "2", "5", "-", "0", "8",
    "-", "1", "2", " ", "1", "4", ":", "3", "3", ":", "2", "0", "\n">>

LineBadCreated ==
  <<"2", "0", "1", "|", "M", "o", "o", "m", "i", "n", "|", "m", "@", "w",
    ".", "o", "r", "g", "|", "0", "5", "0", "9", "|", "2", "0", "2", "5",
    "-", "1", "1", "-", "1", "2", "|", "0", "9", ":", "0", "0", "|", "2",
    "|", "1", "8", ".", "5", "0", "|", "T", "r", "u", "e", "|", "F", "o",
    "r", "e", "s", "t", " ", "1", "|", "2", "0", "2", "5", "-", "0", "8",
    "-", "1", "2", "\n">>

GoodLines == {LineMoomin, LineSnork, LineMymble, LineSniff}

BadLines ==
  {LineBadId, LineBadDate, LineBadTime, LineBadDuration, LineBadPrice,
   LineBadCreated}

LineSet == GoodLines \cup BadLines

(***************************************************************************)
(* TaskD/task_d.py and TaskE/task_e.py: the electricity reports.  The two  *)
(* scripts hold the same read_data, compute_daily_totals and format_kwh.   *)
(* A CSV file is modelled by the records csv.reader yields for it, each a  *)
(* sequence of cells; the first record is the header.                      *)
(***************************************************************************)
TimeColumn == <<"T", "i", "m", "e">>

\* f"Consumption phase {i+1} Wh" and f"Production phase {i+1} Wh"
ConsumptionColumn(i) == <<"C", "o", "n", "s", "u", "m", "p", "t", "i", "o",
                          "n", " ", "p", "h", "a", "s", "e", " ">> \o IntStr(i + 1) \o <<
                                                                                                                                                                     " ",
                                                                                                                                                                     "W",
                                                                                                                                                                     "h">>

ProductionColumn(i) == <<"P", "r", "o", "d", "u", "c", "t", "i", "o", "n",
                         " ", "p", "h", "a", "s", "e", " ">> \o IntStr(i + 1) \o <<
                                                                                                                                                              " ",
                                                                                                                                                              "W",
                                                                                                                                                              "h">>

\* row.get(name): None for a name the header does not have
LookupOrNone(header, row, name) ==
  IF \E i \in 1..Len(row) : i <= Len(header) /\ header[i] = name
  THEN Ok(row[CHOOSE i \in 1..Len(row) : i <= Len(header) /\ header[i] = name])
  ELSE Ok(None)

\* csv.DictReader: row[name] of the dict built from the header and one
\* record.  A header name without a cell (a short record) maps to None,
\* a cell without a header name is kept under the key None.
Lookup(header, row, name) ==
  IF \A i \in 1..Len(header) : header[i] # name
  THEN Raise("KeyError", "%r", name)
  ELSE IF \E i \in (Len(row) + 1)..Len(header) : header[i] = name
  THEN Ok(None)
  ELSE Ok(row[CHOOSE i \in 1..Len(header) :
                /\ header[i] = name
                /\ \A j \in (i + 1)..Len(header) : header[j] # name])

\* the number of the two digits of s from p
TwoDigits(s, p) == DigitsVal(SubSeq(s, p, p + 1))

\* whether s from p reads HH, HH:MM or HH:MM:SS to its end
IsIsoTime(s, p) ==
  /\ Len(s) - p + 1 \in {2, 5, 8}
  /\ \A i \in p..Len(s) :
       IF (i - p) % 3 = 2 THEN s[i] = ":" ELSE s[i] \in Digits

\* whether s reads YYYY-MM-DD, alone or with one separator character and a
\* time of day after it
IsIsoFormat(s) ==
  /\ Len(s) >= 10
  /\ \A i \in 1..10 : IF i \in {5, 8} THEN s[i] = "-" ELSE s[i] \in Digits
  /\ Len(s) = 10 \/ IsIsoTime(s, 12)

\* the part of an ISO time of day that starts at p (0 when it is left out)
IsoPart(s, p) == IF p + 1 <= Len(s) THEN TwoDigits(s, p) ELSE 0

\* datetime(...) of the fields read, with the range checks of the type
IsoDatetime(dt) ==
  IF dt.year = 0
  THEN Raise("ValueError", "year 0 is out of range", NoText)
  ELSE IF dt.month \notin 1..12
  THEN Raise("ValueError", "month must be in 1..12", NoText)
  ELSE IF dt.day \notin 1..DaysInMonth(dt.year, dt.month)
  THEN Raise("ValueError", "day is out of range for month", NoText)
  ELSE IF dt.hour > 23
  THEN Raise("ValueError", "hour must be in 0..23", NoText)
  ELSE IF dt.minute > 59
  THEN Raise("ValueError", "minute must be in 0..59", NoText)
  ELSE IF dt.second > 59
  THEN Raise("ValueError", "second must be in 0..59", NoText)
  ELSE Ok(dt)

\* datetime.fromisoformat(s), for the forms YYYY-MM-DD and
\* YYYY-MM-DD<sep>HH[:MM[:SS]]; None is what a short record gives
FromIsoFormat(s) ==
  IF s = None
  THEN Raise("TypeError", "fromisoformat: argument must be str", NoText)
  ELSE IF ~IsIsoFormat(s)
  THEN Raise("ValueError", "Invalid isoformat string: %r", s)
  ELSE IsoDatetime([year   |-> DigitsVal(SubSeq(s, 1, 4)),
                    month  |-> TwoDigits(s, 6),
                    day    |-> TwoDigits(s, 9),
                    hour   |-> IsoPart(s, 12),
                    minute |-> IsoPart(s, 15),
                    second |-> IsoPart(s, 18)])

\* int(x) of a cell; None is what a short record gives
IntOfCell(x) ==
  IF x = None
  THEN Raise("TypeError",
             "int() argument must be a string, a bytes-like object or a real number, not 'NoneType'",
             NoText)
  ELSE IntParse(x)

\* the seven look-ups of one record in the order read_data makes them:
\* step 1 is Time, 2..4 the consumption phases, 5..7 the production phases
ColumnAt(step) ==
  IF step = 1 THEN TimeColumn
  ELSE IF step <= 4 THEN ConsumptionColumn(step - 2)
  ELSE ProductionColumn(step - 5)

\* c: the cell looked up at this step, or the KeyError of the look-up
CellValue(step, c) ==
  IF ~c.ok THEN c
  ELSE IF step = 1 THEN FromIsoFormat(c.val) ELSE IntOfCell(c.val)

\* the converted values of steps step..7, up to the first that raises;
\* got holds the values of the steps before
RECURSIVE RowFrom(_, _, _, _)
RECURSIVE RowGot(_, _, _, _, _)
RowFrom(header, row, step, got) ==
  IF step > 7
  THEN Ok([timestamp   |-> got[1],
           date        |-> DateOf(got[1]),
           consumption |-> SubSeq(got, 2, 4),
           production  |-> SubSeq(got, 5, 7)])
  ELSE RowGot(header, row, step, got,
              CellValue(step, Lookup(header, row, ColumnAt(step))))

RowGot(header, row, step, got, v) ==
  IF v.ok THEN RowFrom(header, row, step + 1, Append(got, v.val)) ELSE v

\* the loop of read_data over the records after the header; csv.DictReader
\* skips empty records
RECURSIVE ReadRows(_, _, _)
RECURSIVE ReadNext(_, _, _, _)
ReadRows(file, i, rows) ==
  IF i > Len(file) THEN Ok(rows)
  ELSE IF file[i] = << >> THEN ReadRows(file, i + 1, rows)
  ELSE ReadNext(file, i, rows, RowFrom(file[1], file[i], 1, << >>))

ReadNext(file, i, rows, r) ==
  IF r.ok THEN ReadRows(file, i + 1, Append(rows, r.val)) ELSE r

\* read_data(filename), on the records of the file
read_data(file) == ReadRows(file, 2, << >>)

\* The dict of compute_daily_totals is modelled by its entries in the order
\* of insertion (the order a Python dict keeps): one per date, with the
\* three consumption and the three production totals.
NewEntry(d) ==
  [date |-> d, cons |-> <<FZero, FZero, FZero>>, prod |-> <<FZero, FZero, FZero>>]

\* the readings of a row stored as the totals of its date (= for +=)
StoreEntry(total, entry) ==
  [date |-> total.date,
   cons |-> [i \in 1..3 |-> FDivInt(entry.consumption[i], 1000)],
   prod |-> [i \in 1..3 |-> FDivInt(entry.production[i], 1000)]]

\* daily[d]["cons"][i] += entry["consumption"][i] / 1000.0, and likewise
\* for the production, for i in range(3)
AddEntry(total, entry) ==
  [date |-> total.date,
   cons |-> [i \in 1..3 |->
               FAdd(total.cons[i], FDivInt(entry.consumption[i], 1000))],
   prod |-> [i \in 1..3 |->
               FAdd(total.prod[i], FDivInt(entry.production[i], 1000))]]

\* if d not in daily: daily[d] = {"cons": [0.0] * 3, "prod": [0.0] * 3}
WithDate(dly, d) ==
  IF \E i \in 1..Len(dly) : dly[i].date = d THEN dly
  ELSE Append(dly, NewEntry(d))

\* the readings of a row added to the totals of every date
AddToEveryDate(dly, entry) ==
  [i \in 1..Len(dly) |-> AddEntry(dly[i], entry)]

\* dly has an entry for the date of entry: the additions to it
AddToDate(dly, entry) ==
  [i \in 1..Len(dly) |->
     IF dly[i].date = entry.date THEN AddEntry(dly[i], entry) ELSE dly[i]]

\* the loop of compute_daily_totals from row i on
RECURSIVE TotalsFrom(_, _, _)
TotalsFrom(rows, i, dly) ==
  IF i > Len(rows) THEN dly
  ELSE TotalsFrom(rows, i + 1, AddToDate(WithDate(dly, rows[i].date), rows[i]))

compute_daily_totals(rows) == TotalsFrom(rows, 1, << >>)

\* format_kwh(value)
format_kwh(value) == Replace(FormatF2(value), ".", ",")

days ==
  <<<<"M", "o", "n", "d", "a", "y">>, <<"T", "u", "e", "s", "d", "a", "y">>, <<
                                                                               "W",
                                                                               "e",
                                                                               "d",
                                                                               "n",
                                                                               "e",
                                                                               "s",
                                                                               "d",
                                                                               "a",
                                                                               "y">>, <<
                                                                                                                                                                                                                                                                                                                                                                                                                                                                                                                                                                                                                                                                                                                                                                                                                                                                        "T",
                                                                                                                                                                                                                                                                                                                                                                                                                                                                                                                                                                                                                                                                                                                                                                                                                                                                        "h",
                                                                                                                                                                                                                                                                                                                                                                                                                                                                                                                                                                                                                                                                                                                                                                                                                                                                        "u",
                                                                                                                                                                                                                                                                                                                                                                                                                                                                                                                                                                                                                                                                                                                                                                                                                                                                        "r",
                                                                                                                                                                                                                                                                                                                                                                                                                                                                                                                                                                                                                                                                                                                                                                                                                                                                        "s",
                                                                                                                                                                                                                                                                                                                                                                                                                                                                                                                                                                                                                                                                                                                                                                                                                                                                        "d",
                                                                                                                                                                                                                                                                                                                                                                                                                                                                                                                                                                                                                                                                                                                                                                                                                                                                        "a",
                                                                                                                                                                                                                                                                                                                                                                                                                                                                                                                                                                                                                                                                                                                                                                                                                                                                        "y">>, <<
                                                                                                                                                                                                                                                                                                                                                                                                                                                                                                                                                                                                                                                                                                                                                                                                                                                                                                                                                                                                                                                                                                                                                                                                                                                                                                                                                                                                                                                                                                                                                                                                                                                                                                                                                                                                                                                                                                                                                                                                                                                                                                                                                                                                                                                                                                                                                                                                                                                                                                                                                                                                                                                                                                                                                                                                                                                                                                                                                                                                                                                                                                                                                                                                                                                                                                                                                                                                                                                                                                                                                                                                                                                                                                                                                                                                                                                                                                                                                                                                                                                                                                                                                                                                                                                                                                                                                                                                                                                                                                                                                                                                                                                                                                                                                                                                                                                                                                                                                                                                                                                                                                                                                                                                                                                                                                                                                                                                                                                                                                                                                                                                                                                                                                                                                                                                                                                                                                                                                                                                                                                                                                                                                                                                                                                                                                                                                                                                                                                                                                                                                                                                                                                                                                                                                                                                                                                                                                                                                                                                                                                                                                                                                                                                                                                                                                                                                                                                                                                                                                                                                                                                                                                                                                                                                                                                                                                                                                                     "F",
                                                                                                                                                                                                                                                                                                                                                                                                                                                                                                                                                                                                                                                                                                                                                                                                                                                                                                                                                                                                                                                                                                                                                                                                                                                                                                                                                                                                                                                                                                                                                                                                                                                                                                                                                                                                                                                                                                                                                                                                                                                                                                                                                                                                                                                                                                                                                                                                                                                                                                                                                                                                                                                                                                                                                                                                                                                                                                                                                                                                                                                                                                                                                                                                                                                                                                                                                                                                                                                                                                                                                                                                                                                                                                                                                                                                                                                                                                                                                                                                                                                                                                                                                                                                                                                                                                                                                                                                                                                                                                                                                                                                                                                                                                                                                                                                                                                                                                                                                                                                                                                                                                                                                                                                                                                                                                                                                                                                                                                                                                                                                                                                                                                                                                                                                                                                                                                                                                                                                                                                                                                                                                                                                                                                                                                                                                                                                                                                                                                                                                                                                                                                                                                                                                                                                                                                                                                                                                                                                                                                                                                                                                                                                                                                                                                                                                                                                                                                                                                                                                                                                                                                                                                                                                                                                                                                                                                                                                                     "r",
                                                                                                                                                                                                                                                                                                                                                                                                                                                                                                                                                                                                                                                                                                                                                                                                                                                                                                                                                                                                                                                                                                                                                                                                                                                                                                                                                                                                                                                                                                                                                                                                                                                                                                                                                                                                                                                                                                                                                                                                                                                                                                                                                                                                                                                                                                                                                                                                                                                                                                                                                                                                                                                                                                                                                                                                                                                                                                                                                                                                                                                                                                                                                                                                                                                                                                                                                                                                                                                                                                                                                                                                                                                                                                                                                                                                                                                                                                                                                                                                                                                                                                                                                                                                                                                                                                                                                                                                                                                                                                                                                                                                                                                                                                                                                                                                                                                                                                                                                                                                                                                                                                                                                                                                                                                                                                                                                                                                                                                                                                                                                                                                                                                                                                                                                                                                                                                                                                                                                                                                                                                                                                                                                                                                                                                                                                                                                                                                                                                                                                                                                                                                                                                                                                                                                                                                                                                                                                                                                                                                                                                                                                                                                                                                                                                                                                                                                                                                                                                                                                                                                                                                                                                                                                                                                                                                                                                                                                                     "i",
                                                                                                                                                                                                                                                                                                                                                                                                                                                                                                                                                                                                                                                                                                                                                                                                                                                                                                                                                                                                                                                                                                                                                                                                                                                                                                                                                                                                                                                                                                                                                                                                                                                                                                                                                                                                                                                                                                                                                                                                                                                                                                                                                                                                                                                                                                                                                                                                                                                                                                                                                                                                                                                                                                                                                                                                                                                                                                                                                                                                                                                                                                                                                                                                                                                                                                                                                                                                                                                                                                                                                                                                                                                                                                                                                                                                                                                                                                                                                                                                                                                                                                                                                                                                                                                                                                                                                                                                                                                                                                                                                                                                                                                                                                                                                                                                                                                                                                                                                                                                                                                                                                                                                                                                                                                                                                                                                                                                                                                                                                                                                                                                                                                                                                                                                                                                                                                                                                                                                                                                                                                                                                                                                                                                                                                                                                                                                                                                                                                                                                                                                                                                                                                                                                                                                                                                                                                                                                                                                                                                                                                                                                                                                                                                                                                                                                                                                                                                                                                                                                                                                                                                                                                                                                                                                                                                                                                                                                                     "d",
                                                                                                                                                                                                                                                                                                                                                                                                                                                                                                                                                                                                                                                                                                                                                                                                                                                                                                                                                                                                                                                                                                                                                                                                                                                                                                                                                                                                                                                                                                                                                                                                                                                                                                                                                                                                                                                                                                                                                                                                                                                                                                                                                                                                                                                                                                                                                                                                                                                                                                                                                                                                                                                                                                                                                                                                                                                                                                                                                                                                                                                                                                                                                                                                                                                                                                                                                                                                                                                                                                                                                                                                                                                                                                                                                                                                                                                                                                                                                                                                                                                                                                                                                                                                                                                                                                                                                                                                                                                                                                                                                                                                                                                                                                                                                                                                                                                                                                                                                                                                                                                                                                                                                                                                                                                                                                                                                                                                                                                                                                                                                                                                                                                                                                                                                                                                                                                                                                                                                                                                                                                                                                                                                                                                                                                                                                                                                                                                                                                                                                                                                                                                                                                                                                                                                                                                                                                                                                                                                                                                                                                                                                                                                                                                                                                                                                                                                                                                                                                                                                                                                                                                                                                                                                                                                                                                                                                                                                                     "a",
                                                                                                                                                                                                                                                                                                                                                                                                                                                                                                                                                                                                                                                                                                                                                                                                                                                                                                                                                                                                                                                                                                                                                                                                                                                                                                                                                                                                                                                                                                                                                                                                                                                                                                                                                                                                                                                                                                                                                                                                                                                                                                                                                                                                                                                                                                                                                                                                                                                                                                                                                                                                                                                                                                                                                                                                                                                                                                                                                                                                                                                                                                                                                                                                                                                                                                                                                                                                                                                                                                                                                                                                                                                                                                                                                                                                                                                                                                                                                                                                                                                                                                                                                                                                                                                                                                                                                                                                                                                                                                                                                                                                                                                                                                                                                                                                                                                                                                                                                                                                                                                                                                                                                                                                                                                                                                                                                                                                                                                                                                                                                                                                                                                                                                                                                                                                                                                                                                                                                                                                                                                                                                                                                                                                                                                                                                                                                                                                                                                                                                                                                                                                                                                                                                                                                                                                                                                                                                                                                                                                                                                                                                                                                                                                                                                                                                                                                                                                                                                                                                                                                                                                                                                                                                                                                                                                                                                                                                                     "y">>,
    <<"S", "a", "t", "u", "r", "d", "a", "y">>, <<"S", "u", "n", "d", "a",
                                                  "y">>>>

\* f"{s:<w}": s, padded with spaces on the right to w characters
RECURSIVE LJust(_, _)
LJust(s, w) == IF Len(s) >= w THEN s ELSE LJust(Append(s, " "), w)

\* sorted(dates): the dates in ascending order
RECURSIVE Insert(_, _)
Insert(d, sorted) ==
  IF sorted = << >> \/ ~DateLess(sorted[1], d) THEN <<d>> \o sorted
  ELSE <<sorted[1]>> \o Insert(d, Tail(sorted))

\* the dates as they were inserted
AsInserted(dates) == dates

RECURSIVE Sorted(_)
Sorted(dates) ==
  IF dates = << >> THEN << >>
  ELSE Insert(dates[Len(dates)], Sorted(SubSeq(dates, 1, Len(dates) - 1)))

\* daily.keys(), and daily[d]
Keys(dly) == [i \in 1..Len(dly) |-> dly[i].date]

Get(dly, d) == dly[CHOOSE i \in 1..Len(dly) : dly[i].date = d]

\* " | ".join(format_kwh(v) for v in values)
KwhList(values) ==
  Join([i \in 1..Len(values) |-> format_kwh(values[i])], <<" ", "|", " ">>)

\* the table row of date d with totals total
TableRow(d, total) ==
  LJust(days[Weekday(d) + 1], 12) \o <<" ">>
  \o LJust(Strftime(d, ShortDateFormat), 11) \o <<" ">>
  \o LJust(KwhList(total.cons), 27) \o <<" ">>
  \o KwhList(total.prod)

\* the rows of the loop over sorted(daily.keys())
TableRowsOf(dly, dates) ==
  [i \in 1..Len(dates) |-> TableRow(dates[i], Get(dly, dates[i]))]

TableRows(dly) == TableRowsOf(dly, Sorted(Keys(dly)))

TableTitle == <<" ", "-", " ", "E", "l", "e", "c", "t", "r", "i", "c", "i",
                "t", "y", " ", "R", "e", "p", "o", "r", "t", " ", "(", "k",
                "W", "h", ")">>

TableHeader ==
  <<"D", "a", "y", " ", " ", " ", " ", " ", " ", " ", " ", " ", " ", "D",
    "a", "t", "e", " ", " ", " ", " ", " ", " ", " ", " ", "C", "o", "n",
    "s", "u", "m", "p", "t", "i", "o", "n", " ", "(", "k", "W", "h", ")",
    " ", " ", " ", " ", " ", " ", "P", "r", "o", "d", "u", "c", "t", "i",
    "o", "n", " ", "(", "k", "W", "h", ")">>

TableSubHeader ==
  <<" ", " ", " ", " ", " ", " ", " ", " ", " ", " ", " ", "(", "d", "d",
    ".", "m", "m", ".", "y", "y", "y", "y", ")", " ", " ", "v", "1", " ",
    " ", " ", " ", "|", " ", "v", "2", " ", " ", " ", "|", " ", "v", "3",
    " ", " ", " ", " ", " ", " ", " ", " ", " ", " ", " ", "v", "1", " ",
    " ", " ", "|", " ", " ", "v", "2", " ", " ", "|", " ", "v", "3">>

\* "-" * 70
Dashes == [i \in 1..70 |-> "-"]

\* the table text without the "\n" appended after the rows
TableWithoutBlank(week, dly) ==
  Join(<<<<"W", "e", "e", "k", " ">> \o IntStr(week) \o TableTitle \o <<"\n">>,
         TableHeader, TableSubHeader, Dashes>>
       \o TableRows(dly),
       <<"\n">>)

\* generate_table_text(week_number, daily): the lines, joined by "\n"
generate_table_text(week, dly) ==
  Join(<<<<"W", "e", "e", "k", " ">> \o IntStr(week) \o TableTitle \o <<"\n">>,
         TableHeader, TableSubHeader, Dashes>>
       \o TableRows(dly) \o << <<"\n">> >>,
       <<"\n">>)

\* print(line) for each of the lines: each is followed by a line end
RECURSIVE Printed(_)
Printed(lines) ==
  IF lines = << >> THEN << >> ELSE lines[1] \o <<"\n">> \o Printed(Tail(lines))

\* print_table(daily): the text it prints
print_table(dly) ==
  Printed(<<<<"W", "e", "e", "k", " ", "4", "2">> \o TableTitle \o <<"\n">>,
            TableHeader, TableSubHeader, Dashes>>
          \o TableRows(dly))

(***************************************************************************)
(* TaskD/task_d.py, main: read_data, compute_daily_totals, print_table.    *)
(* generate_table_text of TaskE is applied to the same totals.             *)
(***************************************************************************)
\* r: what read_data returned or raised
DataRead(r) ==
  IF r.ok
  THEN /\ data' = r.val
       /\ w_pc' = "totals"
       /\ UNCHANGED w_err
  ELSE /\ w_pc' = "failed"
       /\ w_err' = r.err
       /\ UNCHANGED data

ReadData ==
  /\ w_pc = "read"
  /\ DataRead(read_data(w_file))
  /\ UNCHANGED <<w_file, daily, w_out, week_number, week_text, cvars, kvars,
                 evars>>

ComputeTotals ==
  /\ w_pc = "totals"
  /\ daily' = compute_daily_totals(data)
  /\ w_pc' = "table"
  /\ UNCHANGED <<w_file, data, w_out, week_number, week_text, w_err, cvars,
                 kvars, evars>>

\* the week numbers generate_table_text is applied to
WeekNumbers == {7, 42}

PrintTable ==
  /\ w_pc = "table"
  /\ w_out' = print_table(daily)
  /\ w_pc' = "text"
  /\ UNCHANGED <<w_file, data, daily, week_number, week_text, w_err, cvars,
                 kvars, evars>>

\* generate_table_text on the totals, for some week number
GenerateTable ==
  /\ w_pc = "text"
  /\ \E week \in WeekNumbers :
       /\ week_number' = week
       /\ week_text' = generate_table_text(week, daily)
  /\ w_pc' = "done"
  /\ UNCHANGED <<w_file, data, daily, w_out, w_err, cvars, kvars, evars>>

(***************************************************************************)
(* TaskE/task_e.py, main: the batch driver over the week*.csv files of the *)
(* working directory.                                                      *)
(***************************************************************************)
\* the characters of code points 32..126 in order (the grave accent, which a
\* string of the module cannot hold, by its escape)
Ascii ==
  <<" ", "!", "\"", "#", "$", "%", "&", "'", "(", ")", "*", "+", ",", "-",
    ".", "/", "0", "1", "2", "3", "4", "5", "6", "7", "8", "9", ":", ";",
    "<", "=", ">", "?", "@", "A", "B", "C", "D", "E", "F", "G", "H", "I",
    "J", "K", "L", "M", "N", "O", "P", "Q", "R", "S", "T", "U", "V", "W",
    "X", "Y", "Z", "[", "\\", "]", "^", "_", "\\x60", "a", "b", "c", "d", "e",
    "f", "g", "h", "i", "j", "k", "l", "m", "n", "o", "p", "q", "r", "s",
    "t", "u", "v", "w", "x", "y", "z", "{", "|", "}", "~">>

Ord(c) == 31 + (CHOOSE i \in 1..Len(Ascii) : Ascii[i] = c)

\* the shorter name first, names of one length by code points (the order
\* week1, week2, week10)
ShorterFirst(a, b) ==
  \/ Len(a) < Len(b)
  \/ /\ Len(a) = Len(b)
     /\ \E k \in 1..Len(a) :
          Ord(a[k]) < Ord(b[k]) /\ \A j \in 1..(k - 1) : a[j] = b[j]

\* a < b for two str: by code points, a proper prefix first
RECURSIVE StrLess(_, _)
StrLess(a, b) ==
  IF b = << >> THEN FALSE
  ELSE IF a = << >> THEN TRUE
  ELSE IF a[1] # b[1] THEN Ord(a[1]) < Ord(b[1])
  ELSE StrLess(Tail(a), Tail(b))

\* sorted(names)
RECURSIVE SortedNames(_)
RECURSIVE LeastFirst(_, _)
SortedNames(names) ==
  IF names = {} THEN << >>
  ELSE LeastFirst(names, CHOOSE n \in names : \A m \in names : ~StrLess(m, n))

LeastFirst(names, n) == <<n>> \o SortedNames(names \ {n})

\* whether name matches the pattern week*.csv
Matches(name) ==
  /\ Len(name) >= 8
  /\ SubSeq(name, 1, 4) = <<"w", "e", "e", "k">>
  /\ SubSeq(name, Len(name) - 3, Len(name)) = <<".", "c", "s", "v">>

\* Path.stem: the name without its last suffix
Stem(name) ==
  IF \E i \in 2..(Len(name) - 1) : name[i] = "."
  THEN SubSeq(name, 1,
              (CHOOSE i \in 2..(Len(name) - 1) :
                 /\ name[i] = "."
                 /\ \A j \in (i + 1)..(Len(name) - 1) : name[j] # ".") - 1)
  ELSE name

\* int(week_digits) if week_digits.isdigit() else 0
WeekOfDigits(week_digits) ==
  IF week_digits # << >> /\ IsDigits(week_digits)
  THEN IntParse(week_digits).val ELSE 0

\* the week number of a file name: the digits of its stem, joined
WeekNumber(name) == WeekOfDigits(SelectSeq(Stem(name), LAMBDA c : c \in Digits))

\* summary.txt opened for writing before the loop over the week files
GlobOpening ==
  /\ e_pc = "glob"
  /\ csv_files' = SortedNames({n \in DOMAIN e_dir : Matches(n)})
  /\ e_idx' = 1
  /\ e_pc' = "loop"
  /\ summary' = << >>
  /\ UNCHANGED <<e_dir, all_text, e_out, e_err, cvars, kvars, wvars>>

\* csv_files = sorted(Path(".").glob("week*.csv"))
Glob ==
  /\ e_pc = "glob"
  /\ csv_files' = SortedNames({n \in DOMAIN e_dir : Matches(n)})
  /\ e_idx' = 1
  /\ e_pc' = "loop"
  /\ UNCHANGED <<e_dir, summary, all_text, e_out, e_err, cvars, kvars, wvars>>

\* r: what read_data returned or raised for the file of this turn
Processed(week, r) ==
  IF r.ok
  THEN /\ all_text' =
            Append(all_text,
                   generate_table_text(week, compute_daily_totals(r.val)))
       /\ e_idx' = e_idx + 1
       /\ UNCHANGED <<e_pc, e_err>>
  ELSE /\ e_pc' = "failed"
       /\ e_err' = r.err
       /\ UNCHANGED <<all_text, e_idx>>

\* one turn of the loop over csv_files
ProcessFile ==
  /\ e_pc = "loop" /\ e_idx <= Len(csv_files)
  /\ Processed(WeekNumber(csv_files[e_idx]), read_data(e_dir[csv_files[e_idx]]))
  /\ UNCHANGED <<e_dir, summary, csv_files, e_out, cvars, kvars, wvars>>

\* open("summary.txt", "w"): the file is created, or emptied
OpenSummary ==
  /\ e_pc = "loop" /\ e_idx > Len(csv_files)
  /\ summary' = << >>
  /\ e_pc' = "write"
  /\ UNCHANGED <<e_dir, csv_files, e_idx, all_text, e_out, e_err, cvars, kvars,
                 wvars>>

\* f.write("\n".join(all_text)), and the file is closed
WriteSummary ==
  /\ e_pc = "write"
  /\ summary' = summary \o Join(all_text, <<"\n">>)
  /\ e_pc' = "print"
  /\ UNCHANGED <<e_dir, csv_files, e_idx, all_text, e_out, e_err, cvars, kvars,
                 wvars>>

\* print("summary.txt created")
PrintCreated ==
  /\ e_pc = "print"
  /\ e_out' = e_out \o <<"s", "u", "m", "m", "a", "r", "y", ".", "t", "x",
                         "t", " ", "c", "r", "e", "a", "t", "e", "d">> \o <<"\n">>
  /\ e_pc' = "done"
  /\ UNCHANGED <<e_dir, summary, csv_files, e_idx, all_text, e_err, cvars,
                 kvars, wvars>>

\* convert_reservation_data on the fields of one line, as fetch_reservations
\* calls it
ConvertLine ==
  /\ k_pc = "convert"
  /\ k_record' = convert_reservation_data(Split(k_line, "|"))
  /\ k_pc' = "done"
  /\ UNCHANGED <<k_line, cvars, wvars, evars>>

(***************************************************************************)
(* The week files the electricity reports are run on.                      *)
(***************************************************************************)
FullHeader ==
  <<TimeColumn, ConsumptionColumn(0), ConsumptionColumn(1),
    ConsumptionColumn(2), ProductionColumn(0), ProductionColumn(1),
    ProductionColumn(2)>>

\* three hours of Monday 13.10.2025, one of Sunday 02.11.2025 and one of
\* Tuesday 14.10.2025
RowMonday0 ==
  <<<<"2", "0", "2", "5", "-", "1", "0", "-", "1", "3", "T", "0", "0", ":", "0", "0", ":", "0", "0">>,
    <<"1", "0", "0", "0">>, <<"5">>, <<"0">>, <<"0">>, <<"1", "0">>, <<"0">>>>

RowMonday1 ==
  <<<<"2", "0", "2", "5", "-", "1", "0", "-", "1", "3", "T", "0", "1", ":", "0", "0", ":", "0", "0">>,
    <<"2", "0", "0", "0">>, <<"2", "0", "0">>, <<"0">>, <<"0">>, <<"2", "0">>, <<"0">>>>

RowMonday2 ==
  <<<<"2", "0", "2", "5", "-", "1", "0", "-", "1", "3", "T", "0", "2", ":", "0", "0", ":", "0", "0">>,
    <<"2", "5", "0">>, <<"1", "0", "0", "0">>, <<"1">>, <<"0">>, <<"3", "0">>, <<"7">>>>

RowSunday ==
  <<<<"2", "0", "2", "5", "-", "1", "1", "-", "0", "2", " ", "1", "2", ":",
      "3", "0">>, <<"3", "0", "0">>, <<"1", "5">>, <<"7", "0", "0">>, <<"2", "5">>, <<"0">>, <<"1", "0",
                                                               "0">>>>

RowTuesday ==
  <<<<"2", "0", "2", "5", "-", "1", "0", "-", "1", "4">>, <<"1", "2", "3", "4">>, <<"0">>, <<"9", "9", "9">>, <<"1">>, <<"2">>, <<"3">>>>

\* a reading that is no int, and a record that ends after three cells
RowBadInt ==
  <<<<"2", "0", "2", "5", "-", "1", "0", "-", "1", "3", "T", "0", "3", ":",
      "0", "0", ":", "0", "0">>, <<"7">>, <<"1", "2", ".", "5">>, <<"0">>, <<"0">>, <<"0">>, <<"0">>>>

RowShort == <<<<"2", "0", "2", "5", "-", "1", "0", "-", "1", "3", "T", "0",
                "4", ":", "0", "0", ":", "0", "0">>, <<"1">>, <<"2">>>>

GoodRows == {RowMonday0, RowMonday1, RowMonday2, RowSunday, RowTuesday}

RowSet == GoodRows \cup {RowBadInt, RowShort}

\* a record without its cell k
WithoutCell(record, k) ==
  IF k > Len(record) THEN record
  ELSE SubSeq(record, 1, k - 1) \o SubSeq(record, k + 1, Len(record))

\* a file without its column k
WithoutColumn(file, k) == [i \in 1..Len(file) |-> WithoutCell(file[i], k)]

MaxRows == 3

MaxShortRows == 1

RECURSIVE SeqsUpTo(_, _)
SeqsUpTo(S, n) ==
  IF n = 0 THEN {<< >>}
  ELSE {<< >>} \cup {<<x>> \o q : x \in S, q \in SeqsUpTo(S, n - 1)}

\* the files with every column, those that lack one column, and the file
\* that is empty
WeekFiles ==
  {<<FullHeader>> \o rs : rs \in SeqsUpTo(RowSet, MaxRows)}
  \cup {WithoutColumn(<<FullHeader>> \o rs, k) :
          k \in 1..7, rs \in SeqsUpTo(RowSet, MaxShortRows)}
  \cup {<< >>}


(***************************************************************************)
(* The working directories the batch driver is run in.                     *)
(***************************************************************************)
FileNames ==
  {<<"w", "e", "e", "k", "1", ".", "c", "s", "v">>, <<"w", "e", "e", "k", "1", "0", ".", "c", "s", "v">>, <<"w", "e", "e", "k", "2", ".", "c", "s",
                                  "v">>, <<"w", "e", "e", "k", ".",
                                                "c", "s", "v">>, <<"w", "e", "e",
                                                             "k", "3", "b",
                                                             "7", ".", "c",
                                                             "s", "v">>,
   <<"n", "o", "t", "e", "s", ".", "c", "s", "v">>, <<"w", "e", "e", "k", "5", ".", "t", "x", "t">>}

\* two days out of order, a header without rows, and a reading that is no int
WeekGood == <<FullHeader, RowSunday, RowMonday0>>

WeekNoRows == <<FullHeader>>

WeekBroken == <<FullHeader, RowMonday0, RowBadInt>>

DriverFiles == {WeekGood, WeekNoRows, WeekBroken}

MaxFiles == 3

Directories ==
  UNION {[names -> DriverFiles] :
           names \in {S \in SUBSET FileNames : Cardinality(S) <= MaxFiles}}

OldSummary == <<"W", "e", "e", "k", " ", "1", "\n">>

(***************************************************************************)
(* The lines convert_reservation_data is applied to: every combination of  *)
(* these spellings of the converted columns and of the end of the line.    *)
(***************************************************************************)
IdTexts == {<<"2", "0", "1">>, <<"0", "0", "7">>, <<"+", "5">>}

DateTexts == {<<"2", "0", "2", "5", "-", "1", "1", "-", "1", "2">>, <<"2", "0", "2", "5", "-", "1", "-", "2">>}

TimeTexts == {<<"0", "9", ":", "0", "0">>, <<"9", ":", "5">>}

DurationTexts == {<<"2">>, <<" ", "3">>}

PriceTexts == {<<"1", "8", ".", "5", "0">>, <<"1", "8", ".", "5">>, <<"1", "0", "0">>, <<"1", "0", "0", ".", "0">>, <<"0", ".", "1">>}

ConfirmedTexts == {<<"T", "r", "u", "e">>, <<"F", "a", "l", "s", "e">>, <<"t", "r", "u", "e">>}

CreatedTexts == {<<"2", "0", "2", "5", "-", "0", "8", "-", "1", "2", " ",
                   "1", "4", ":", "3", "3", ":", "2", "0">>, <<"2", "0", "2", "5", "-", "0",
                                           "8", "-", "1", "2", " ", " ",
                                           "1", "4", ":", "3", "3", ":",
                                           "2", "0">>}

LineEnds == {<<"\n">>, <<" ", "\n">>, << >>, <<"|", "\n">>}

ReservationLines ==
  {Join(<<id, <<"M", "o", "o", "m", "i", "n">>, <<"m", "@", "w", ".", "o", "r", "g">>, <<"0", "5", "0", "9">>, date, time, duration, price,
          confirmed, <<"F", "o", "r", "e", "s", "t", " ", "1">>, created \o end>>, <<"|">>) :
     id \in IdTexts, date \in DateTexts, time \in TimeTexts,
     duration \in DurationTexts, price \in PriceTexts,
     confirmed \in ConfirmedTexts, created \in CreatedTexts, end \in LineEnds}

MaxLines == 3

(***************************************************************************)
(* The specifications: one per program, the variables of the other         *)
(* programs at rest.                                                       *)
(***************************************************************************)
RestC ==
  /\ c_file = << >> /\ c_pc = "rest" /\ c_pos = 1 /\ c_fetching = << >>
  /\ reservations = None /\ c_err = Nothing /\ c_out = << >>

RestK == k_line = << >> /\ k_pc = "rest" /\ k_record = Nothing

RestW ==
  /\ w_file = << >> /\ w_pc = "rest" /\ data = None /\ daily = None
  /\ w_out = None /\ week_number = 0 /\ week_text = None /\ w_err = Nothing

RestE ==
  /\ e_dir = << >> /\ summary = None /\ e_pc = "rest" /\ csv_files = None
  /\ e_idx = 1 /\ all_text = << >> /\ e_out = << >> /\ e_err = Nothing

\* TaskC: main is about to call fetch_reservations
InitC ==
  /\ c_file \in SeqsUpTo(LineSet, MaxLines)
  /\ c_pc = "fetch"
  /\ c_pos = 1
  /\ c_fetching = << >>
  /\ reservations = None
  /\ c_err = Nothing
  /\ c_out = << >>
  /\ RestK /\ RestW /\ RestE

NextC ==
  \/ FetchLine
  \/ FetchReturn
  \/ PrintConfirmed
  \/ PrintLong
  \/ PrintStatuses
  \/ PrintSummary
  \/ PrintRevenue

SpecC == InitC /\ [][NextC]_vars

\* convert_reservation_data on one line
InitConvert ==
  /\ k_line \in ReservationLines
  /\ k_pc = "convert"
  /\ k_record = Nothing
  /\ RestC /\ RestW /\ RestE

NextConvert == ConvertLine

SpecConvert == InitConvert /\ [][NextConvert]_vars

\* TaskD: main is about to call read_data
InitWeek ==
  /\ w_file \in WeekFiles
  /\ w_pc = "read"
  /\ data = None
  /\ daily = None
  /\ w_out = None
  /\ week_number = 0
  /\ week_text = None
  /\ w_err = Nothing
  /\ RestC /\ RestK /\ RestE

NextWeek ==
  \/ ReadData
  \/ ComputeTotals
  \/ PrintTable
  \/ GenerateTable

SpecWeek == InitWeek /\ [][NextWeek]_vars

\* TaskE: main is about to list the week files
InitBatch ==
  /\ e_dir \in Directories
  /\ summary \in {None, OldSummary}
  /\ e_pc = "glob"
  /\ csv_files = None
  /\ e_idx = 1
  /\ all_text = << >>
  /\ e_out = << >>
  /\ e_err = Nothing
  /\ RestC /\ RestK /\ RestW

NextBatch ==
  \/ Glob
  \/ ProcessFile
  \/ OpenSummary
  \/ WriteSummary
  \/ PrintCreated

SpecBatch == InitBatch /\ [][NextBatch]_vars

(***************************************************************************)
(* The claims about the aggregation (compute_daily_totals), under          *)
(* SpecWeek.                                                               *)
(***************************************************************************)
\* the dates of the rows read, and of the entries of the totals
RowDates(rows) == {rows[j].date : j \in 1..Len(rows)}

TotalDates(dly) == {dly[j].date : j \in 1..Len(dly)}

\* the sum, taken in the order of the rows, of reading/1000 over the rows
\* 1..n whose date is d; the reading is phase i of the list named by field
RECURSIVE SumOver(_, _, _, _, _)
SumOver(rows, n, d, field, i) ==
  IF n = 0 THEN FZero
  ELSE IF rows[n].date = d
  THEN FAdd(SumOver(rows, n - 1, d, field, i), FDivInt(rows[n][field][i], 1000))
  ELSE SumOver(rows, n - 1, d, field, i)

\* the readings of the rows 1..n whose date is d, added as integers (Wh)
RECURSIVE WhOver(_, _, _, _, _)
WhOver(rows, n, d, field, i) ==
  IF n = 0 THEN 0
  ELSE WhOver(rows, n - 1, d, field, i)
       + (IF rows[n].date = d THEN rows[n][field][i] ELSE 0)

\* whether |x - y| <= 10^-9 for two nonnegative floats, in exact arithmetic:
\* with x = X * 2^e and y = Y * 2^e, whether |X - Y| * 10^9 <= 2^-e
CloseAt(X, Y, e) ==
  \/ X = Y
  \/ /\ e < 0
     /\ BCmp(BMul(IF BCmp(X, Y) >= 0 THEN BSub(X, Y) ELSE BSub(Y, X),
                  BFromInt(10^9)),
             BShl(<<1>>, -e)) <= 0

Close(x, y) ==
  IF x.m = << >> \/ y.m = << >> THEN x = y
  ELSE CloseAt(BShl(x.m, x.e - (IF x.e < y.e THEN x.e ELSE y.e)),
               BShl(y.m, y.e - (IF x.e < y.e THEN x.e ELSE y.e)),
               IF x.e < y.e THEN x.e ELSE y.e)

\* C1: after compute_daily_totals, the totals have one entry for each date
\* of the input rows and for no other date, and for every date and phase
\* the consumption total is the sum of consumption/1000 over the rows of
\* that date only, taken in input order, likewise the production total;
\* each total is within 10^-9 of the exact sum of the Wh readings over 1000.
C1_TotalsAreSumsPerDate ==
  w_pc = "table" =>
    /\ TotalDates(daily) = RowDates(data)
    /\ Len(daily) = Cardinality(RowDates(data))
    /\ \A j \in 1..Len(daily) : \A i \in 1..3 :
         /\ daily[j].cons[i] =
              SumOver(data, Len(data), daily[j].date, "consumption", i)
         /\ daily[j].prod[i] =
              SumOver(data, Len(data), daily[j].date, "production", i)
         /\ Close(daily[j].cons[i],
                  FDivInt(WhOver(data, Len(data), daily[j].date,
                                 "consumption", i), 1000))
         /\ Close(daily[j].prod[i],
                  FDivInt(WhOver(data, Len(data), daily[j].date,
                                 "production", i), 1000))

\* two rows of one day with 1000 Wh and 2000 Wh in phase 1, and a row of
\* another day: the total of the day is 3.0 kWh, which renders as 3,00
C1_Witness ==
  /\ w_pc = "table"
  /\ w_file = <<FullHeader, RowMonday0, RowSunday, RowMonday1>>
  /\ Len(daily) = 2
  /\ daily[1].cons[1] = FFromInt(3)
  /\ format_kwh(daily[1].cons[1]) = <<"3", ",", "0", "0">>

\* the permutations of a sequence
Shuffles(s) ==
  {[i \in 1..Len(s) |-> s[p[i]]] :
     p \in {q \in [1..Len(s) -> 1..Len(s)] :
              \A a, b \in 1..Len(s) : a # b => q[a] # q[b]}}

\* two dicts of totals are equal: the same dates with the same totals
SameTotals(a, b) ==
  {a[j] : j \in 1..Len(a)} = {b[j] : j \in 1..Len(b)}

\* the same dates, and totals within 10^-9 of each other
CloseTotals(a, b) ==
  /\ TotalDates(a) = TotalDates(b)
  /\ \A j \in 1..Len(a) : \A k \in 1..Len(b) :
       a[j].date = b[k].date =>
         \A i \in 1..3 : /\ Close(a[j].cons[i], b[k].cons[i])
                         /\ Close(a[j].prod[i], b[k].prod[i])

\* the number of rows of each date is at most n
AtMostPerDate(rows, n) ==
  \A d \in RowDates(rows) :
    Cardinality({j \in 1..Len(rows) : rows[j].date = d}) <= n

\* C2 as stated: for every permutation of the rows, compute_daily_totals
\* returns identical totals (the same dates, the same totals per phase).
C2_IdenticalForEveryPermutation ==
  w_pc = "table" =>
    \A p \in Shuffles(data) : SameTotals(compute_daily_totals(p), daily)

\* C2 as amended: for every permutation of the rows, compute_daily_totals
\* returns the same set of dates; the totals are identical when no date has
\* more than two rows, and within 10^-9 of each other for the rows of a
\* meter (at most 24 rows of a date, less than 1024 kWh a day and phase).
C2_CloseForEveryPermutation ==
  w_pc = "table" =>
    \A p \in Shuffles(data) :
      /\ CloseTotals(compute_daily_totals(p), daily)
      /\ AtMostPerDate(data, 2) => SameTotals(compute_daily_totals(p), daily)

\* three rows of one day whose phase 2 readings 5, 200 and 1000 Wh add up to
\* 1.205 in one order and to 1.2049999999999998 in another
C2_Witness ==
  /\ w_pc = "table"
  /\ w_file = <<FullHeader, RowMonday0, RowMonday1, RowMonday2>>
  /\ \E p \in Shuffles(data) :
       /\ ~SameTotals(compute_daily_totals(p), daily)
       /\ format_kwh(compute_daily_totals(p)[1].cons[2])
            # format_kwh(daily[1].cons[2])

(***************************************************************************)
(* The claims about the table renderers (generate_table_text and           *)
(* print_table) and about read_data, under SpecWeek.                       *)
(***************************************************************************)
\* the pieces of a text between its line ends, from position p on; at is
\* the position of the first line end from p on, or 0
RECURSIVE LinesFrom(_, _)
RECURSIVE LinesAt(_, _, _)
LinesFrom(text, p) ==
  LinesAt(text, p,
          IF \E i \in p..Len(text) : text[i] = "\n"
          THEN CHOOSE i \in p..Len(text) :
                 text[i] = "\n" /\ \A j \in p..(i - 1) : text[j] # "\n"
          ELSE 0)

LinesAt(text, p, at) ==
  IF at = 0 THEN <<SubSeq(text, p, Len(text))>>
  ELSE <<SubSeq(text, p, at - 1)>> \o LinesFrom(text, at + 1)

Lines(text) == LinesFrom(text, 1)

\* the date and the day written in a table row: columns 14..23 hold
\* dd.mm.yyyy, columns 1..12 the name of the day
RowDate(row) ==
  [year  |-> DigitsVal(SubSeq(row, 20, 23)),
   month |-> DigitsVal(SubSeq(row, 17, 18)),
   day   |-> DigitsVal(SubSeq(row, 14, 15))]

RowDay(row) == RStrip(SubSeq(row, 1, 12))

\* the calendar of the dates of the model's week files
DayOfDate(d) ==
  CASE d = [year |-> 2025, month |-> 10, day |-> 13] -> <<"M", "o", "n",
                                                          "d", "a", "y">>
    [] d = [year |-> 2025, month |-> 10, day |-> 14] -> <<"T", "u", "e",
                                                          "s", "d", "a",
                                                          "y">>
    [] d = [year |-> 2025, month |-> 11, day |-> 2] -> <<"S", "u", "n", "d",
                                                         "a", "y">>

\* d1 is an earlier day than d2
Earlier(d1, d2) ==
  d1.year * 10000 + d1.month * 100 + d1.day
    < d2.year * 10000 + d2.month * 100 + d2.day

\* lines is a table for the totals dly: the title, an empty line, the
\* header, the sub-header, 70 dashes, then one row per date of dly in
\* ascending order, each with the day of its date, and after the rows
\* nothing but empty lines
IsTableFor(lines, title, dly) ==
  /\ Len(lines) >= 5 + Len(dly)
  /\ lines[1] = title
  /\ lines[2] = << >>
  /\ lines[3] = TableHeader
  /\ lines[4] = TableSubHeader
  /\ Len(lines[5]) = 70 /\ \A i \in 1..70 : lines[5][i] = "-"
  /\ \A k \in 1..Len(dly) :
       /\ RowDate(lines[5 + k]) \in TotalDates(dly)
       /\ RowDay(lines[5 + k]) = DayOfDate(RowDate(lines[5 + k]))
       /\ k < Len(dly) => Earlier(RowDate(lines[5 + k]), RowDate(lines[6 + k]))
  /\ \A k \in (6 + Len(dly))..Len(lines) : lines[k] = << >>

\* C7: the text of generate_table_text and the text print_table prints
\* hold, after the title, the header, the sub-header and the 70 dashes,
\* exactly one row per date of the totals, in strictly ascending date
\* order whatever the order of insertion, each row with the Monday-first
\* day name of its own date; for empty totals there is no row.
C7_OneRowPerDateAscending ==
  w_pc = "done" =>
    /\ Len(daily) = Cardinality(TotalDates(daily))
    /\ IsTableFor(Lines(week_text),
                  <<"W", "e", "e", "k", " ">> \o IntStr(week_number) \o TableTitle, daily)
    /\ IsTableFor(Lines(w_out), <<"W", "e", "e", "k", " ", "4", "2">> \o TableTitle, daily)

\* totals inserted for Sunday 02.11., Monday 13.10. and Tuesday 14.10., in
\* this order: the rows are those of Monday, Tuesday and Sunday
C7_Witness ==
  /\ w_pc = "done"
  /\ w_file = <<FullHeader, RowSunday, RowMonday0, RowTuesday>>
  /\ Keys(daily) = <<[year |-> 2025, month |-> 11, day |-> 2],
                     [year |-> 2025, month |-> 10, day |-> 13],
                     [year |-> 2025, month |-> 10, day |-> 14]>>
  /\ RowDay(Lines(week_text)[6]) = <<"M", "o", "n", "d", "a", "y">>
  /\ RowDay(Lines(week_text)[7]) = <<"T", "u", "e", "s", "d", "a", "y">>
  /\ RowDay(Lines(week_text)[8]) = <<"S", "u", "n", "d", "a", "y">>
  /\ RowDay(Lines(w_out)[8]) = <<"S", "u", "n", "d", "a", "y">>

\* empty totals: the title, the header lines and the dashes only
C7_EmptyTable ==
  /\ w_pc = "done"
  /\ daily = << >>
  /\ Len(Lines(week_text)) = 7
  /\ Len(Lines(w_out)) = 6

\* the header of the file lacks one of the seven columns read_data looks up
LacksColumn(file) ==
  /\ Len(file) >= 1
  /\ \E s \in 1..7 : \A i \in 1..Len(file[1]) : file[1][i] # ColumnAt(s)

\* the first look-up of read_data that finds no column
FirstMissing(file) ==
  CHOOSE s \in 1..7 :
    /\ \A i \in 1..Len(file[1]) : file[1][i] # ColumnAt(s)
    /\ \A t \in 1..(s - 1) : \E i \in 1..Len(file[1]) : file[1][i] = ColumnAt(t)

\* the data records of the file: those after the header that are not empty
DataRecords(file) == {i \in 2..Len(file) : file[i] # << >>}

FirstRecord(file) ==
  file[CHOOSE i \in DataRecords(file) : \A j \in DataRecords(file) : i <= j]

\* the cells of record that read_data looks up before step s all convert
EarlierConvert(file, record, s) ==
  \A t \in 1..(s - 1) : CellValue(t, Lookup(file[1], record, ColumnAt(t))).ok

\* C5 as stated: for a file whose header lacks one of the seven columns,
\* read_data fails with a SchemaError and returns no rows, whatever the
\* number of data rows.
C5_SchemaErrorWhateverTheRows ==
  (w_pc # "read" /\ LacksColumn(w_file)) =>
    /\ w_pc = "failed"
    /\ data = None
    /\ w_err.type = "SchemaError"

\* C5 as amended: for a file whose header lacks one of the seven columns,
\* read_data fails on the first data row and returns no rows: with the
\* KeyError of the first column it looks up and does not find, when the
\* cells it looks up before that one convert, and else with the ValueError
\* or TypeError of the first cell that does not; with no data row at all
\* it returns the empty list and raises nothing.
C5_KeyErrorOnFirstRow ==
  (w_pc # "read" /\ LacksColumn(w_file)) =>
    IF DataRecords(w_file) = {}
    THEN w_pc # "failed" /\ data = << >> /\ w_err = Nothing
    ELSE /\ w_pc = "failed"
         /\ data = None
         /\ IF EarlierConvert(w_file, FirstRecord(w_file), FirstMissing(w_file))
            THEN /\ w_err.type = "KeyError"
                 /\ w_err.text = ColumnAt(FirstMissing(w_file))
            ELSE w_err.type \in {"ValueError", "TypeError"}

\* a file without the column of consumption phase 2, with one row
C5_Witness ==
  /\ w_pc = "failed"
  /\ w_file = WithoutColumn(<<FullHeader, RowMonday0>>, 3)
  /\ w_err.type = "KeyError"
  /\ w_err.text = ConsumptionColumn(1)
  /\ data = None

\* a file without the column Time and without rows: read_data returns []
C5_NoRowsWitness ==
  /\ w_pc = "done"
  /\ w_file = WithoutColumn(<<FullHeader>>, 1)
  /\ data = << >>

(***************************************************************************)
(* The claims about the batch driver, under SpecBatch.                     *)
(***************************************************************************)
\* a is before b in lexicographic order: at the first position where they
\* differ a has the character of the lower code point, or a has ended
LexBefore(a, b) ==
  \E k \in 1..Len(b) :
    /\ \A j \in 1..(k - 1) : j <= Len(a) /\ a[j] = b[j]
    /\ k > Len(a) \/ (k <= Len(a) /\ Ord(a[k]) < Ord(b[k]))

\* name is week*.csv
IsWeekFile(name) ==
  /\ Len(name) >= 4 /\ SubSeq(name, 1, 4) = <<"w", "e", "e", "k">>
  /\ SubSeq(name, Len(name) - 3, Len(name)) = <<".", "c", "s", "v">>

\* the number of the digits of a week file's name before .csv, read in
\* order as one decimal number; 0 when there is none
DigitsOfName(name) ==
  SelectSeq(SubSeq(name, 1, Len(name) - 4), LAMBDA c : c \in Digits)

WeekOfName(name) ==
  IF DigitsOfName(name) = << >> THEN 0 ELSE DigitsVal(DigitsOfName(name))

TitleOfName(name) == <<"W", "e", "e", "k", " ">> \o NatStr(WeekOfName(name)) \o TableTitle

\* the title lines of a text: its lines that begin with Week
IsTitle(line) == Len(line) >= 5 /\ SubSeq(line, 1, 5) = <<"W", "e", "e",
                                                          "k", " ">>

Titles(text) == SelectSeq(Lines(text), IsTitle)

\* C6: the driver processes the week*.csv files of the directory in the
\* lexicographic order of their names, the tables stand in summary.txt in
\* that order, and the week number in the title of each table is the
\* number of the digits of the file name's stem, 0 when it has none.
C6_LexicographicOrderAndWeekNumbers ==
  csv_files # None =>
    /\ {csv_files[i] : i \in 1..Len(csv_files)}
         = {n \in DOMAIN e_dir : IsWeekFile(n)}
    /\ \A i \in 1..(Len(csv_files) - 1) :
         LexBefore(csv_files[i], csv_files[i + 1])
    /\ Len(all_text) = e_idx - 1
    /\ \A i \in 1..Len(all_text) :
         Lines(all_text[i])[1] = TitleOfName(csv_files[i])
    /\ e_pc \in {"print", "done"} =>
         Titles(summary) = [i \in 1..Len(csv_files) |-> TitleOfName(csv_files[i])]

\* week1.csv, week10.csv and week2.csv: this is their order, and the titles
\* in summary.txt are those of weeks 1, 10 and 2
C6_Witness ==
  /\ e_pc = "done"
  /\ csv_files = <<<<"w", "e", "e", "k", "1", ".", "c", "s", "v">>, <<"w", "e", "e", "k", "1", "0", ".", "c",
                                   "s", "v">>, <<"w", "e", "e", "k", "2",
                                                  ".", "c", "s", "v">>>>
  /\ Titles(summary) =
       <<<<"W", "e", "e", "k", " ", "1">> \o TableTitle, <<"W", "e", "e", "k", " ", "1", "0">> \o TableTitle,
         <<"W", "e", "e", "k", " ", "2">> \o TableTitle>>

\* the positions of the title lines of a text, but for the first line
LaterTitles(lines) == {t \in 2..Len(lines) : IsTitle(lines[t])}

\* C9 as stated: in summary.txt every table is followed by a blank line,
\* and exactly one empty line lies between the last line of a table and
\* the title line of the next.
C9_OneEmptyLineBetweenTables ==
  (e_pc \in {"print", "done"} /\ Len(csv_files) >= 1) =>
    /\ Len(Titles(summary)) = Len(csv_files)
    /\ \A t \in LaterTitles(Lines(summary)) :
         /\ Lines(summary)[t - 1] = << >>
         /\ Lines(summary)[t - 2] # << >>
    /\ summary[Len(summary)] = "\n" /\ summary[Len(summary) - 1] = "\n"

\* C9 as amended: in summary.txt every table is followed by a blank line;
\* exactly two empty lines lie between the last line of a table and the
\* title line of the next, and exactly one empty line follows the last
\* table.
C9_TwoEmptyLinesBetweenTables ==
  (e_pc \in {"print", "done"} /\ Len(csv_files) >= 1) =>
    /\ Len(Titles(summary)) = Len(csv_files)
    /\ \A t \in LaterTitles(Lines(summary)) :
         /\ Lines(summary)[t - 1] = << >>
         /\ Lines(summary)[t - 2] = << >>
         /\ Lines(summary)[t - 3] # << >>
    /\ summary[Len(summary)] = "\n" /\ summary[Len(summary) - 1] = "\n"
    /\ summary[Len(summary) - 2] # "\n"

\* summary.txt written for three week files
C9_Witness ==
  /\ e_pc = "done"
  /\ Len(csv_files) = 3
  /\ Cardinality(LaterTitles(Lines(summary))) = 2

\* a week file that read_data fails on: one with a row that does not
\* convert, or without a column and with a row
Unreadable(file) ==
  \/ \E i \in 2..Len(file) : file[i] \in {RowBadInt, RowShort}
  \/ LacksColumn(file) /\ DataRecords(file) # {}

\* C10: summary.txt is written all or nothing.  A step changes summary.txt
\* only when every week file of the directory has been read and rendered
\* and none has failed; when one of the week files is unreadable no step
\* changes summary.txt or prints anything; and the step that prints
\* "summary.txt created" finds in summary.txt the tables of all the week
\* files of the directory (an empty file when there is none).
C10_AllOrNothing ==
  [][/\ summary' # summary =>
          /\ e_pc \in {"loop", "write"}
          /\ e_err = Nothing
          /\ Len(all_text) = Cardinality({n \in DOMAIN e_dir : IsWeekFile(n)})
     /\ (\E n \in DOMAIN e_dir : IsWeekFile(n) /\ Unreadable(e_dir[n])) =>
          /\ summary' = summary
          /\ e_out' = << >>
     /\ e_pc' = "failed" => summary' = summary /\ e_out' = << >> /\ e_pc = "loop"
     /\ e_out' # e_out =>
          /\ e_out' = <<"s", "u", "m", "m", "a", "r", "y", ".", "t", "x",
                        "t", " ", "c", "r", "e", "a", "t", "e", "d", "\n">>
          /\ Len(all_text) = Cardinality({n \in DOMAIN e_dir : IsWeekFile(n)})
          /\ summary = Join(all_text, <<"\n">>)
          /\ summary' = summary
    ]_vars

\* the second week file is unreadable, after the table of the first was
\* rendered: summary.txt is as it was and nothing is printed
C10_Witness ==
  /\ e_pc = "failed"
  /\ Len(all_text) = 1
  /\ summary = OldSummary
  /\ e_out = << >>

\* no week file: summary.txt is created empty and the message is printed
C10_NoWeekFile ==
  /\ e_pc = "done"
  /\ csv_files = << >>
  /\ summary = << >>
  /\ e_out = <<"s", "u", "m", "m", "a", "r", "y", ".", "t", "x", "t", " ",
               "c", "r", "e", "a", "t", "e", "d", "\n">>

(***************************************************************************)
(* The claims about the reservation report, under SpecC, and about         *)
(* convert_reservation_data, under SpecConvert.                            *)
(***************************************************************************)
\* the columns of a line as text
FieldsOf(line) == Split(line, "|")

\* a price given with at most two decimals, in cents
CentsOfParts(parts) ==
  100 * DigitsVal(parts[1])
  + (IF Len(parts) = 1 THEN 0
     ELSE DigitsVal(SubSeq(parts[2] \o <<"0", "0">>, 1, 2)))

CentsOf(price) == CentsOfParts(Split(price, "."))

\* price * durationHours over the lines 1..n marked True, in cents
RECURSIVE CentsOver(_, _)
CentsOver(file, n) ==
  IF n = 0 THEN 0
  ELSE CentsOver(file, n - 1)
       + (IF FieldsOf(file[n])[9] = <<"T", "r", "u", "e">>
          THEN CentsOf(FieldsOf(file[n])[8]) * DigitsVal(FieldsOf(file[n])[7])
          ELSE 0)

\* an amount of cents with two decimals and a decimal comma
EurosOf(cents) ==
  NatStr(cents \div 100) \o <<",">> \o Pad(NatStr(cents % 100), 2)

\* C3: the last line of the report is the total revenue: the sum of
\* price * durationHours over the confirmed reservations only (0 when
\* there is none), with two decimals, a decimal comma and the euro sign.
C3_RevenueOfConfirmedOnly ==
  c_pc = "done" =>
    c_out[Len(c_out)] =
      <<"Total revenue from confirmed reservations: ",
        EurosOf(CentsOver(c_file, Len(c_file))), " \\u20ac">>

\* a confirmed reservation of 2 h at 18.50 and an unconfirmed one of 5 h at
\* 100: the total printed is 37,00
C3_Witness ==
  /\ c_pc = "done"
  /\ c_file = <<LineMoomin, LineSnork>>
  /\ reservations[1][9] /\ ~reservations[2][9]
  /\ c_out[Len(c_out)][2] = <<"3", "7", ",", "0", "0">>

\* the first line of the file with a malformed field
FirstBad(file) ==
  CHOOSE i \in 1..Len(file) :
    file[i] \in BadLines /\ \A j \in 1..(i - 1) : file[j] \notin BadLines

\* the exception Python raises on each of the malformed lines
ErrorOf(line) ==
  CASE line \in {LineBadId, LineBadDuration} ->
         [type |-> "ValueError",
          msg |-> "invalid literal for int() with base 10: %r",
          text |-> <<"x">>]
    [] line = LineBadDate ->
         [type |-> "ValueError", msg |-> "day is out of range for month",
          text |-> NoText]
    [] line = LineBadTime ->
         [type |-> "ValueError", msg |-> "unconverted data remains: %s",
          text |-> <<":", "0", "0">>]
    [] line = LineBadPrice ->
         [type |-> "ValueError",
          msg |-> "could not convert string to float: %r",
          text |-> <<"1", "8", ",", "5", "0">>]
    [] line = LineBadCreated ->
         [type |-> "ValueError",
          msg |-> "time data %r does not match format %r",
          text |-> <<"2", "0", "2", "5", "-", "0", "8", "-", "1", "2">>]

\* the column of each malformed line that is malformed, and its text
BadColumn(line) ==
  CASE line = LineBadId -> 1
    [] line = LineBadDate -> 5
    [] line = LineBadTime -> 6
    [] line = LineBadDuration -> 7
    [] line = LineBadPrice -> 8
    [] line = LineBadCreated -> 11

\* C4 as stated: decoding a line with a malformed field fails with a
\* ParseError that identifies the offending column and its raw value, no
\* later line is decoded and the caller receives no list.
C4_ParseErrorNamesColumn ==
  c_pc = "failed" =>
    /\ c_err.type = "ParseError"
    /\ c_err.text = Strip(FieldsOf(c_file[c_pos])[BadColumn(c_file[c_pos])])
    /\ c_pos = FirstBad(c_file)
    /\ reservations = None

\* C4 as amended: when a line of the file has a malformed field,
\* fetch_reservations fails at the first such line with the ValueError of
\* the conversion that failed (int, float or strptime; it names no column,
\* and quotes the raw value only for int, float and a text that does not
\* match the format), no later line is decoded, the caller receives no
\* list, neither the records of the earlier lines nor a partial record,
\* and nothing is printed.
C4_ValueErrorFailFast ==
  (\E i \in 1..Len(c_file) : c_file[i] \in BadLines) =>
    /\ c_pc \in {"fetch", "failed"}
    /\ c_pos <= FirstBad(c_file)
    /\ Len(c_fetching) = c_pos - 1
    /\ reservations = None
    /\ c_out = << >>
    /\ c_pc = "failed" =>
         /\ c_pos = FirstBad(c_file)
         /\ c_err = ErrorOf(c_file[c_pos])

\* a good line, a line with a malformed durationHours and a good line: the
\* run fails at line 2 with one record converted and no list returned
C4_Witness ==
  /\ c_pc = "failed"
  /\ c_file = <<LineMoomin, LineBadDuration, LineSnork>>
  /\ c_pos = 2
  /\ Len(c_fetching) = 1
  /\ reservations = None
  /\ c_err = ErrorOf(LineBadId)

\* str(x) of a float, for the prices of the model: whether two floats have
\* one magnitude, and whether n / 10^k reads back as |x|
SameMagnitude(x, y) == x.m = y.m /\ x.e = y.e

ReadsBackAs(x, k, n) ==
  Len(n) <= 2 /\ SameMagnitude(FDivInt(BToInt(n), Pow10(k)), x)

\* the least number of decimals (at most 4 in the model) whose nearest
\* decimal reads back as x
RECURSIVE MinDecimals(_, _)
MinDecimals(x, k) ==
  IF k = 4 \/ ReadsBackAs(x, k, FScaledRound(x, Pow10(k))) THEN k
  ELSE MinDecimals(x, k + 1)

FloatReprAt(x, k) ==
  (IF x.neg THEN <<"-">> ELSE << >>)
  \o Decimal(FScaledRound(x, Pow10(k)), k)
  \o (IF k = 0 THEN <<"0">> ELSE << >>)

\* repr(x), str(x): the shortest decimal that reads back as x, with at
\* least one decimal
FloatRepr(x) == FloatReprAt(x, MinDecimals(x, 0))

\* the 11 converted fields written back as text: str() of the int, float
\* and bool fields, strftime with the formats of the conversion
Serialized(r) ==
  Join(<<IntStr(r[1]), r[2], r[3], r[4], Strftime(r[5], DateFormat),
         Strftime(r[6], TimeFormat), IntStr(r[7]), FloatRepr(r[8]),
         IF r[9] THEN <<"T", "r", "u", "e">> ELSE <<"F", "a", "l", "s", "e">>, r[10],
         Strftime(r[11], CreatedFormat)>>, <<"|">>)

\* a line without the whitespace around its last field
Trimmed(line) ==
  Join([FieldsOf(line) EXCEPT ![Len(FieldsOf(line))] = Strip(@)], <<"|">>)

\* an int as str() writes it
IsPlainInt(f) ==
  /\ f # << >> /\ IsDigits(f)
  /\ Len(f) > 1 => f[1] # "0"

\* a price as str() writes a float: an integer part, a point and one to four
\* decimals, no zero that could be left out, at most 15 digits
IsPlainPrice(parts) ==
  /\ Len(parts) = 2
  /\ IsPlainInt(parts[1])
  /\ parts[2] # << >> /\ IsDigits(parts[2]) /\ Len(parts[2]) <= 4
  /\ Len(parts[2]) > 1 => parts[2][Len(parts[2])] # "0"
  /\ Len(parts[1]) + Len(parts[2]) <= 15

\* text of the shape of pattern, where 9 stands for a digit
HasShape(f, pattern) ==
  /\ Len(f) = Len(pattern)
  /\ \A i \in 1..Len(f) :
       IF pattern[i] = "9" THEN f[i] \in Digits ELSE f[i] = pattern[i]

\* a date of the calendar with a year of four digits, and a time of day
IsDay(f) ==
  /\ f[1] # "0"
  /\ DigitsVal(SubSeq(f, 6, 7)) \in 1..12
  /\ DigitsVal(SubSeq(f, 9, 10)) \in
       1..DaysInMonth(DigitsVal(SubSeq(f, 1, 4)), DigitsVal(SubSeq(f, 6, 7)))

IsTimeOfDay(f) ==
  /\ DigitsVal(SubSeq(f, 1, 2)) < 24
  /\ \A p \in {4, 7} : p < Len(f) => DigitsVal(SubSeq(f, p, p + 1)) < 60

\* a line of 11 columns, each converted column written as the conversion's
\* value is written back
IsPlainLine(f) ==
  /\ Len(f) = 11
  /\ IsPlainInt(f[1]) /\ IsPlainInt(f[7])
  /\ HasShape(f[5], <<"9", "9", "9", "9", "-", "9", "9", "-", "9", "9">>) /\ IsDay(f[5])
  /\ HasShape(f[6], <<"9", "9", ":", "9", "9">>) /\ IsTimeOfDay(f[6])
  /\ IsPlainPrice(Split(f[8], "."))
  /\ f[9] \in {<<"T", "r", "u", "e">>, <<"F", "a", "l", "s", "e">>}
  /\ HasShape(Strip(f[11]), <<"9", "9", "9", "9", "-", "9", "9", "-", "9",
                              "9", " ", "9", "9", ":", "9", "9", ":", "9",
                              "9">>)
  /\ IsDay(Strip(f[11])) /\ IsTimeOfDay(SubSeq(Strip(f[11]), 12, 19))

\* C8 as stated: for every valid line, writing the converted fields back
\* reproduces the line, but for the whitespace around its last field.
C8_RoundTripsEveryValidLine ==
  (k_pc = "done" /\ k_record.ok) => Serialized(k_record.val) = Trimmed(k_line)

\* C8 as amended: a line of exactly 11 columns whose converted columns are
\* written as Python writes the values back (ints without sign, leading
\* zeros or blanks; the price with a point and one to four decimals and no
\* superfluous zero; True or False; dates and times zero-padded, years of
\* four digits, one blank in createdAt) is converted, and writing the
\* converted fields back reproduces it, but for the whitespace around its
\* last field.
C8_RoundTripsPlainLines ==
  (k_pc = "done" /\ IsPlainLine(FieldsOf(k_line))) =>
    /\ k_record.ok
    /\ Serialized(k_record.val) = Trimmed(k_line)

\* the line of Moomin with the price written 18.5 and a blank before the
\* line end
C8_Witness ==
  /\ k_pc = "done"
  /\ k_line =
       <<"2", "0", "1", "|", "M", "o", "o", "m", "i", "n", "|", "m", "@",
         "w", ".", "o", "r", "g", "|", "0", "5", "0", "9", "|", "2", "0",
         "2", "5", "-", "1", "1", "-", "1", "2", "|", "0", "9", ":", "0",
         "0", "|", "2", "|", "1", "8", ".", "5", "|", "T", "r", "u", "e",
         "|", "F", "o", "r", "e", "s", "t", " ", "1", "|", "2", "0", "2",
         "5", "-", "0", "8", "-", "1", "2", " ", "1", "4", ":", "3", "3",
         ":", "2", "0", " ", "\n">>
  /\ IsPlainLine(FieldsOf(k_line))
  /\ k_record.ok
  /\ Serialized(k_record.val) =
       <<"2", "0", "1", "|", "M", "o", "o", "m", "i", "n", "|", "m", "@",
         "w", ".", "o", "r", "g", "|", "0", "5", "0", "9", "|", "2", "0",
         "2", "5", "-", "1", "1", "-", "1", "2", "|", "0", "9", ":", "0",
         "0", "|", "2", "|", "1", "8", ".", "5", "|", "T", "r", "u", "e",
         "|", "F", "o", "r", "e", "s", "t", " ", "1", "|", "2", "0", "2",
         "5", "-", "0", "8", "-", "1", "2", " ", "1", "4", ":", "3", "3",
         ":", "2", "0">>
====
